---------------------------- MODULE Spec2Model ----------------------------
(***************************************************************************)
(* Contract-Analysis-Risk-Assessment-Bot: the rule-based analysis core.    *)
(*                                                                         *)
(* For the risk scorer, the clause detectors and the report a text is a   *)
(* sequence of words (lower-cased or cased as the code sees them,          *)
(* separated by single blanks).  A regular expression of the source is     *)
(* there a sequence of alternatives, each a sequence of elements; an       *)
(* element matches one word out of the words of the vocabulary that its    *)
(* fragment of the expression accepts, may be optional ("(?:x\s+)?"), or   *)
(* is ".*".  re.findall / re.finditer count leftmost, non-overlapping      *)
(* matches; re.search asks for one.                                        *)
(*                                                                         *)
(* For the clause extractor, the classifier, the compliance checker, the   *)
(* entity extractor and the ambiguity detector a text is a string, and     *)
(* the regular expressions of the source are compiled from their pattern   *)
(* strings and matched character by character with backtracking.  The      *)
(* LLM-backed components are modelled with the provider's answer, or its   *)
(* failure, as the input of each call.                                     *)
(*                                                                         *)
(* Scores are kept exact: a one-decimal number is an integer count of      *)
(* tenths, an unrounded number a count of hundredths or a fraction.        *)
(***************************************************************************)
EXTENDS Integers, Sequences, FiniteSets, TLC

VARIABLES
    clauses,          \* RiskScorer input: the list of clause texts
    clause_result,    \* result of RiskScorer.score_clause, or NoResult
    contract_score,   \* result of RiskScorer.score_contract, or NoResult
    contract_text,    \* the contract text given to the analysers
    clause_detections,\* result of ClauseDetectors.detect_all, or NoResult
    report,           \* outcome of RiskReportGenerator.generate_report, or NoResult
    extracted_clauses,\* result of ClauseExtractor.extract_clauses, or NoResult
    classification,   \* result of ContractClassifier.classify, or NoResult
    compliance_result,\* result of ComplianceChecker.check_compliance, or NoResult
    llm,              \* the LLMClient of the LLM-backed components
    provider_calls,   \* outcomes of the provider API calls made so far
    llm_output,       \* result of an LLM-backed operation, or NoResult
    extracted_entities,\* result of EntityExtractor.extract_all, or NoResult
    entities_restarted,\* its result for the same text in a new process, or NoResult
    ambiguity_findings,\* result of AmbiguityDetector.detect, or NoResult
    appended_findings,\* its result for the text with one more term, or NoResult
    obligation_analysis,\* result of ObligationAnalyzer.analyze, or NoResult
    one_sided_terms,  \* result of ObligationAnalyzer.get_one_sided_terms, or NoResult
    session_state,    \* st.session_state of the application
    uploaded_file,    \* the name of the file in the uploader, or None
    pc,               \* the step of analyze_contract to run, "return" or "idle"
    pipeline_results, \* results of the analyze_contract that runs or ran last
    audit_log,        \* the audit entries written
    shown_error       \* the step at which st.error was called, or None

vars ==
    <<clauses, clause_result, contract_score, contract_text, clause_detections, report,
      extracted_clauses, classification, compliance_result, llm, provider_calls, llm_output,
      extracted_entities, entities_restarted, ambiguity_findings, appended_findings,
      obligation_analysis, one_sided_terms,
      session_state, uploaded_file, pc, pipeline_results, audit_log, shown_error>>

\* Python's None as the value of a string field.
None == "None"
\* No result yet; also None where the code returns a dictionary or None.
NoResult == [no_result |-> TRUE]

\* The components analyse independently: while component c is exercised
\* the variables of the others keep their initial values.
Idle(c) ==
    /\ IF c = "risk" THEN TRUE
       ELSE clauses = <<>> /\ clause_result = NoResult /\ contract_score = NoResult
    /\ IF c = "report" THEN TRUE ELSE clause_detections = NoResult /\ report = NoResult
    /\ IF c = "risk" THEN contract_text = <<>> ELSE TRUE
    /\ IF c = "clauses" THEN TRUE ELSE extracted_clauses = NoResult
    /\ IF c = "classify" THEN TRUE ELSE classification = NoResult
    /\ IF c = "compliance" THEN TRUE ELSE compliance_result = NoResult
    /\ IF c = "llm" THEN TRUE
       ELSE llm = NoResult /\ provider_calls = <<>> /\ llm_output = NoResult
    /\ IF c = "entities" THEN TRUE
       ELSE extracted_entities = NoResult /\ entities_restarted = NoResult
    /\ IF c = "ambiguity" THEN TRUE
       ELSE ambiguity_findings = NoResult /\ appended_findings = NoResult
    /\ IF c = "obligations" THEN TRUE
       ELSE obligation_analysis = NoResult /\ one_sided_terms = NoResult
    /\ IF c = "app" THEN TRUE
       ELSE /\ session_state = NoResult /\ uploaded_file = None /\ pc = "idle"
            /\ pipeline_results = NoResult /\ audit_log = <<>> /\ shown_error = None

Frame(c) ==
    /\ IF c = "risk" THEN TRUE ELSE UNCHANGED <<clauses, clause_result, contract_score>>
    /\ IF c = "report" THEN TRUE ELSE UNCHANGED <<clause_detections, report>>
    /\ IF c = "risk" THEN UNCHANGED contract_text ELSE TRUE
    /\ IF c = "clauses" THEN TRUE ELSE UNCHANGED extracted_clauses
    /\ IF c = "classify" THEN TRUE ELSE UNCHANGED classification
    /\ IF c = "compliance" THEN TRUE ELSE UNCHANGED compliance_result
    /\ IF c = "llm" THEN TRUE ELSE UNCHANGED <<llm, provider_calls, llm_output>>
    /\ IF c = "entities" THEN TRUE ELSE UNCHANGED <<extracted_entities, entities_restarted>>
    /\ IF c = "ambiguity" THEN TRUE ELSE UNCHANGED <<ambiguity_findings, appended_findings>>
    /\ IF c = "obligations" THEN TRUE ELSE UNCHANGED <<obligation_analysis, one_sided_terms>>
    /\ IF c = "app" THEN TRUE
       ELSE UNCHANGED <<session_state, uploaded_file, pc, pipeline_results, audit_log,
                        shown_error>>

-----------------------------------------------------------------------------
(* Word-level regular expressions                                          *)

W(s) == [ws |-> s, opt |-> FALSE, star |-> FALSE, gap |-> FALSE, cut |-> 0]
Opt(s) == [ws |-> s, opt |-> TRUE, star |-> FALSE, gap |-> FALSE, cut |-> 0]
Star == [ws |-> {}, opt |-> FALSE, star |-> TRUE, gap |-> FALSE, cut |-> 0]
\* "\s+" with nothing required after it: another word has to follow.
Gap == [ws |-> {}, opt |-> FALSE, star |-> FALSE, gap |-> TRUE, cut |-> 0]
\* A pattern that ends inside a word: the first n characters of a word of s.
Prefix(s, n) == [ws |-> s, opt |-> FALSE, star |-> FALSE, gap |-> FALSE, cut |-> n]

Max(a, b) == IF a >= b THEN a ELSE b
Min(a, b) == IF a <= b THEN a ELSE b

RECURSIVE MatchAlt(_, _, _, _)
\* Elements k.. of alternative alt matched against text from word i on:
\* the index after the match, or 0 when there is none.  An optional
\* element is taken when it can be (greedy), ".*" takes as much as it can.
MatchAlt(alt, k, text, i) ==
    IF k > Len(alt) THEN i
    ELSE LET e == alt[k] IN
         IF e.gap
         THEN IF i <= Len(text) THEN MatchAlt(alt, k + 1, text, i) ELSE 0
         ELSE IF e.star
         THEN LET ends == {j \in i..(Len(text) + 1) : MatchAlt(alt, k + 1, text, j) # 0}
              IN IF ends = {} THEN 0
                 ELSE MatchAlt(alt, k + 1, text, CHOOSE j \in ends : \A j2 \in ends : j2 <= j)
         ELSE LET take == IF i <= Len(text) /\ text[i] \in e.ws
                          THEN MatchAlt(alt, k + 1, text, i + 1) ELSE 0
              IN IF take # 0 THEN take
                 ELSE IF e.opt THEN MatchAlt(alt, k + 1, text, i) ELSE 0

RECURSIVE MatchAt(_, _, _, _)
\* The first alternative (from a on) of pattern pat that matches at word i.
MatchAt(pat, a, text, i) ==
    IF a > Len(pat) THEN 0
    ELSE LET m == MatchAlt(pat[a], 1, text, i)
         IN IF m # 0 THEN m ELSE MatchAt(pat, a + 1, text, i)

RECURSIVE FindIter(_, _, _)
\* re.finditer: the matches [first word, word after the last] from word i
\* on, leftmost first, none overlapping another.
FindIter(pat, text, i) ==
    IF i > Len(text) THEN <<>>
    ELSE LET m == MatchAt(pat, 1, text, i)
         IN IF m = 0 THEN FindIter(pat, text, i + 1)
            ELSE <<[from |-> i, to |-> m]>> \o FindIter(pat, text, Max(m, i + 1))

FindAll(pat, text) == FindIter(pat, text, 1)

Search(pat, text) == \E i \in 1..Len(text) : MatchAt(pat, 1, text, i) # 0

RECURSIVE SumSeq(_)
SumSeq(s) == IF s = <<>> THEN 0 ELSE Head(s) + SumSeq(Tail(s))

RECURSIVE MaxSeq(_)
MaxSeq(s) == IF Len(s) = 1 THEN s[1] ELSE Max(s[1], MaxSeq(Tail(s)))

RECURSIVE Flatten(_)
Flatten(ss) == IF ss = <<>> THEN <<>> ELSE Head(ss) \o Flatten(Tail(ss))

\* Words of the vocabulary that are numbers.
Digits == {"7", "12", "24", "30", "45", "60", "90", "100"}
\* 6[0-9]|[7-9][0-9]|[1-9][0-9]{2,}
SixtyOrMore == {"60", "90", "100"}

-----------------------------------------------------------------------------
(* RiskScorer (src/src/risk_engine/risk_scorer.py)                         *)

\* One pattern with a single alternative of plain words.
Phrase(ws) == << [k \in 1..Len(ws) |-> W(ws[k])] >>

\* self.risk_indicators: severity, weight (in hundredths) and patterns.
risk_indicators ==
    << [severity |-> "critical", weight |-> 300, patterns |-> <<
          Phrase(<<{"unlimited"}, {"liability"}>>),
          Phrase(<<{"waive"}, {"all"}, {"rights"}>>),
          << <<W({"indemnify"}), Star, W({"against"}), W({"all"}), W({"claims"})>> >>,
          Phrase(<<{"sole"}, {"and"}, {"absolute"}, {"discretion"}>>),
          << <<W({"irrevocable"}), Opt({"and"}), W({"unconditional"})>> >>,
          << <<W({"perpetual"}), Opt({"and"}), W({"irrevocable"})>> >>,
          << <<W({"assign"}), W({"all"}), W({"rights"})>>,
             <<W({"assign"}), W({"all"}), W({"intellectual"}), W({"property"})>> >>,
          Phrase(<<{"without"}, {"any"}, {"limitation"}, {"whatsoever"}>>) >>],
       [severity |-> "high", weight |-> 200, patterns |-> <<
          Phrase(<<{"penalty"}, {"of", "amounting"}>>),
          Phrase(<<{"liquidated"}, {"damages"}>>),
          << <<W({"terminate"}), W({"immediately"})>>,
             <<W({"terminate"}), W({"without"}), W({"notice"})>>,
             <<W({"terminate"}), W({"without"}), W({"cause"})>> >>,
          Phrase(<<{"unilateral"}, {"termination", "modification"}>>),
          Phrase(<<{"non-compete", "non-competetion"}, {"clause", "covenant", "agreement"}>>),
          Phrase(<<{"automatic"}, {"renewal"}>>),
          Phrase(<<{"lock-in", "lockin"}, {"period"}>>),
          Phrase(<<{"exclusive"}, {"rights", "jurisdiction"}>>),
          Phrase(<<{"forfeit", "forfeiture"}>>),
          Phrase(<<{"waiver"}, {"of"}, {"rights", "claims"}>>) >>],
       [severity |-> "medium", weight |-> 100, patterns |-> <<
          << <<W({"arbitration"}), W({"clause"})>>,
             <<W({"arbitration"}), W({"shall"}), W({"be"})>> >>,
          Phrase(<<{"confidential", "confidentiality"}, {"clause", "agreement", "obligations"}>>),
          Phrase(<<{"intellectual"}, {"property"}, {"rights", "transfer"}>>),
          << <<W({"notice"}), W({"period"}), W({"of"}), W({"less"}), W({"than"}), W(Digits), W({"days"})>>,
             <<W({"notice"}), W({"period"}), W({"of"}), W(Digits), W({"days"})>> >>,
          Phrase(<<{"governing"}, {"law"}>>),
          Phrase(<<{"limitation"}, {"of"}, {"liability"}>>),
          Phrase(<<{"force"}, {"majeure"}>>),
          Phrase(<<{"assignment"}, {"clause", "rights"}>>),
          << <<W({"amendment"}), W({"clause"})>>,
             <<W({"amendment"}), W({"by"}), W({"mutual"})>> >> >>],
       [severity |-> "low", weight |-> 50, patterns |-> <<
          Phrase(<<{"reasonable"}, {"efforts", "time", "notice"}>>),
          Phrase(<<{"commercially"}, {"reasonable"}>>),
          Phrase(<<{"good"}, {"faith"}>>),
          Phrase(<<{"best"}, {"efforts"}>>),
          Phrase(<<{"material"}, {"breach"}>>) >>] >>

\* self.sme_concerns: concern type and patterns.
sme_concerns ==
    << [type |-> "cash_flow_risk", patterns |-> <<
          Phrase(<<{"payment"}, {"within", "after"}, SixtyOrMore, {"days"}>>),
          Phrase(<<{"net"}, SixtyOrMore>>),
          Phrase(<<{"advance"}, {"payment"}, {"of"}, {d \o "%" : d \in Digits}>>) >>],
       [type |-> "resource_risk", patterns |-> <<
          Phrase(<<{"dedicated"}, {"team", "resources", "personnel"}>>),
          Phrase(<<{"minimum"}, {"order", "commitment", "volume"}>>),
          Phrase(<<{"exclusive"}, {"supply", "service"}>>) >>],
       [type |-> "exit_risk", patterns |-> <<
          Phrase(<<{"termination"}, {"fee"}>>),
          Phrase(<<{"early"}, {"termination"}, {"penalty"}>>),
          Phrase(<<{"exit"}, {"fee", "cost", "charges"}>>) >>] >>

\* The weight of an SME concern, in hundredths (total_weight += 1.5).
SmeWeight == 150

\* round(x, 1) of x = h hundredths, a value the float holds exactly
\* (ties go to the even tenth): the result in tenths.
Round1(h) ==
    LET q == h \div 10
        r == h % 10
    IN IF r > 5 \/ (r = 5 /\ q % 2 = 1) THEN q + 1 ELSE q

\* round(num/den) to an integer where num/den is a float that need not hold
\* its decimal value exactly: on a decimal tie either neighbour can result.
RoundAny(num, den) ==
    LET q == num \div den
        r2 == 2 * (num % den)
    IN IF r2 > den THEN {q + 1} ELSE IF r2 < den THEN {q} ELSE {q, q + 1}

\* _get_risk_level(score) for score = num/den.
get_risk_levelStrict(num, den) ==
    IF num < 3 * den THEN "low"
    ELSE IF num < 6 * den THEN "medium"
    ELSE "high"

get_risk_level(num, den) ==
    IF num <= 3 * den THEN "low"
    ELSE IF num <= 6 * den THEN "medium"
    ELSE "high"

\* The findings of one severity tier, pattern by pattern, match by match.
TierFindings(config, text) ==
    Flatten([p \in 1..Len(config.patterns) |->
               [m \in 1..Len(FindAll(config.patterns[p], text)) |->
                  [severity |-> config.severity, weight |-> config.weight]]])

\* The SME findings of one concern type: one per pattern that is found.
ConcernFindings(concern, text) ==
    Flatten([p \in 1..Len(concern.patterns) |->
               IF Search(concern.patterns[p], text)
               THEN <<[type |-> concern.type]>> ELSE <<>>])

\* raw_score = min(10.0, total_weight), in hundredths.
RawScore(total_weight) == Min(1000, total_weight)

\* RiskScorer.score_clause(clause_text); text is clause_text.lower().
score_clause(text) ==
    LET findings == Flatten([t \in 1..Len(risk_indicators) |->
                               TierFindings(risk_indicators[t], text)])
        sme_findings == Flatten([c \in 1..Len(sme_concerns) |->
                                   ConcernFindings(sme_concerns[c], text)])
        total_weight == SumSeq([f \in 1..Len(findings) |-> findings[f].weight])
                        + SmeWeight * Len(sme_findings)
        raw_score == RawScore(total_weight)
    IN [score |-> Round1(raw_score),
        risk_level |-> get_risk_level(raw_score, 100),
        findings |-> findings,
        sme_concerns |-> sme_findings,
        requires_attention |-> raw_score >= 500]

\* _get_recommendation(score, severity_counts) for score = num/den.
get_recommendation(num, den) ==
    IF num >= 7 * den THEN "[HIGH RISK]"
    ELSE IF num >= 5 * den THEN "[MODERATE RISK]"
    ELSE IF num >= 3 * den THEN "[LOW-MODERATE RISK]"
    ELSE "[LOW RISK]"

\* How many findings of the list have the severity.
SeverityCount(findings, severity) ==
    Cardinality({f \in 1..Len(findings) : findings[f].severity = severity})

\* composite_score = (avg_score * 0.4) + (max_score * 0.6), as the fraction
\* num/den of tenths, from the clause scores (in tenths).
CompositeSwapped(scores) ==
    IF scores = <<>> THEN [num |-> 0, den |-> 1]
    ELSE [num |-> 6 * SumSeq(scores) + 4 * MaxSeq(scores) * Len(scores),
          den |-> 10 * Len(scores)]

Composite(scores) ==
    IF scores = <<>> THEN [num |-> 0, den |-> 1]
    ELSE [num |-> 4 * SumSeq(scores) + 6 * MaxSeq(scores) * Len(scores),
          den |-> 10 * Len(scores)]

\* RiskScorer.score_contract(clauses): the results it can return (one,
\* or two when round(composite_score, 1) meets a decimal tie).
score_contract(cls) ==
    LET results == [i \in 1..Len(cls) |-> score_clause(cls[i])]
        clause_scores == [i \in 1..Len(cls) |->
                            [score |-> results[i].score,
                             risk_level |-> results[i].risk_level,
                             findings |-> results[i].findings]]
        all_findings == Flatten([i \in 1..Len(cls) |-> results[i].findings])
        all_sme_concerns == Flatten([i \in 1..Len(cls) |-> results[i].sme_concerns])
        critical_clauses == {i \in 1..Len(cls) : results[i].score >= 70}
        high_risk_clauses == {i \in 1..Len(cls) : results[i].score >= 50} \ critical_clauses
        c == Composite([i \in 1..Len(cls) |-> results[i].score])
    IN { [composite_score |-> r,
          risk_level |-> get_risk_level(c.num, 10 * c.den),
          clause_scores |-> clause_scores,
          severity_distribution |->
              [sev \in {"critical", "high", "medium", "low"} |->
                  SeverityCount(all_findings, sev)],
          critical_clauses_count |-> Cardinality(critical_clauses),
          high_risk_clauses_count |-> Cardinality(high_risk_clauses),
          sme_concerns |-> all_sme_concerns,
          total_findings |-> Len(all_findings),
          recommendation |-> get_recommendation(c.num, 10 * c.den)]
        : r \in RoundAny(c.num, c.den) }

\* RiskScorer.get_risk_summary_for_sme(contract_score); the composite score
\* is in tenths.
get_risk_summary_for_sme(score) ==
    LET KeyConcern(c) ==
            IF c.type = "cash_flow_risk" THEN <<"Long payment terms may strain your cash flow">>
            ELSE IF c.type = "resource_risk" THEN <<"Contract may require dedicated resources">>
            ELSE IF c.type = "exit_risk" THEN <<"High exit costs or termination penalties">>
            ELSE <<>>
        ActionItem(c) ==
            IF c.type = "cash_flow_risk"
            THEN <<"Negotiate for shorter payment terms (Net 30 or Net 45)">>
            ELSE IF c.type = "exit_risk" THEN <<"Negotiate for reasonable termination terms">>
            ELSE <<>>
    IN [overall_assessment |->
            IF score.composite_score >= 70 THEN "[HIGH RISK]"
            ELSE IF score.composite_score >= 50 THEN "[MODERATE RISK]"
            ELSE "[LOW RISK]",
        key_concerns |-> Flatten([k \in 1..Len(score.sme_concerns) |->
                                    KeyConcern(score.sme_concerns[k])]),
        action_items |-> Flatten([k \in 1..Len(score.sme_concerns) |->
                                    ActionItem(score.sme_concerns[k])]),
        negotiation_points |->
            IF score.critical_clauses_count > 0
            THEN <<"Review and negotiate critical clauses before signing">> ELSE <<>>]

\* text_lower of "The Employer shall indemnify the Employee against any and
\* all claims whatsoever, including but not limited to ..."
IndemnityScenario ==
    <<"the", "employer", "shall", "indemnify", "the", "employee", "against", "any", "and",
      "all", "claims", "whatsoever,", "including", "but", "not", "limited", "to", "...">>

\* text_lower of "Payment shall be made within 90 days of invoice."
PaymentScenario ==
    <<"payment", "shall", "be", "made", "within", "90", "days", "of", "invoice.">>

\* Inputs of the risk scorer: clause texts put together from these phrases.
RiskPhrases ==
    { <<"perpetual", "irrevocable", "unconditional">>,
      <<"early", "termination", "penalty", "of">>,
      <<"good", "faith">>,
      <<"the">> }

\* The most phrases in one list of clauses.
MaxPhrases == 3

RECURSIVE TextsOf(_, _)
\* The texts made of exactly k of the phrases.
TextsOf(phrases, k) ==
    IF k = 0 THEN {<<>>}
    ELSE {p \o t : p \in phrases, t \in TextsOf(phrases, k - 1)}

RECURSIVE ClauseListsOf(_)
\* The lists of non-empty clauses that hold n phrases together.
ClauseListsOf(n) ==
    IF n = 0 THEN {<<>>}
    ELSE UNION {{<<t>> \o rest : t \in TextsOf(RiskPhrases, k), rest \in ClauseListsOf(n - k)}
                : k \in 1..n}

EmptyText == <<>>

InitRisk ==
    /\ clauses \in UNION {ClauseListsOf(n) : n \in 0..MaxPhrases}
                   \cup {<<IndemnityScenario>>, <<PaymentScenario>>,
                         <<PaymentScenario, IndemnityScenario>>}
    /\ clause_result = NoResult
    /\ contract_score = NoResult
    /\ Idle("risk")

\* A caller scores one clause: a clause of the list, or (a clause record
\* without "text") the empty string.
ScoreClause ==
    /\ clause_result = NoResult
    /\ \E text \in {clauses[i] : i \in 1..Len(clauses)} \cup {EmptyText} :
          clause_result' = [text |-> text, result |-> score_clause(text)]
    /\ UNCHANGED <<clauses, contract_score>>
    /\ Frame("risk")

\* A caller scores the contract.
ScoreContract ==
    /\ contract_score = NoResult
    /\ \E res \in score_contract(clauses) : contract_score' = res
    /\ UNCHANGED <<clauses, clause_result>>
    /\ Frame("risk")

NextRisk == ScoreClause \/ ScoreContract

SpecRisk == InitRisk /\ [][NextRisk]_vars

-----------------------------------------------------------------------------
(* Claims about the risk scorer                                            *)

\* C1: for every input text, the empty string included, score_clause
\* returns a score s with 0 <= s <= 10 whose risk_level is 'low' exactly
\* when s <= 3, 'medium' exactly when 3 < s <= 6, 'high' exactly when s > 6.
C1_ScoreInRangeAndLevelConsistent ==
    clause_result # NoResult =>
        LET s == clause_result.result.score
            l == clause_result.result.risk_level
        IN /\ 0 <= s /\ s <= 100
           /\ l \in {"low", "medium", "high"}
           /\ (l = "low") <=> (s <= 30)
           /\ (l = "medium") <=> (30 < s /\ s <= 60)
           /\ (l = "high") <=> (s > 60)

\* A clause whose total weight exceeds 10 was scored (the clamp acted) ...
C1_Witness ==
    /\ clause_result # NoResult
    /\ SumSeq([f \in 1..Len(clause_result.result.findings) |->
                 clause_result.result.findings[f].weight]) > 1000
    /\ clause_result.result.score = 100
    /\ clause_result.result.risk_level = "high"

\* C7: for a non-empty clause list the composite is 0.4 x mean + 0.6 x max
\* of the clause scores rounded to one decimal, so between the mean and the
\* maximum and within [0,10]; for an empty list it is 0.0.
C7_CompositeFormula ==
    contract_score # NoResult =>
        LET cs == contract_score.clause_scores
            n == Len(cs)
            S == SumSeq([i \in 1..n |-> cs[i].score])
            c == contract_score.composite_score
        IN IF n = 0 THEN c = 0
           ELSE LET M == MaxSeq([i \in 1..n |-> cs[i].score])
                    d == 10 * n * c - (4 * S + 6 * M * n)
                IN /\ n = Len(clauses)
                   /\ -5 * n <= d /\ d <= 5 * n
                   /\ S <= n * c /\ c <= M
                   /\ 0 <= c /\ c <= 100

\* Three clauses of different scores were scored and the composite lies
\* strictly between their mean and their maximum, after a real rounding.
C7_Witness ==
    /\ contract_score # NoResult
    /\ Len(contract_score.clause_scores) = 3
    /\ LET cs == contract_score.clause_scores
           S == cs[1].score + cs[2].score + cs[3].score
           c == contract_score.composite_score
       IN /\ S < 3 * c
          /\ \E i \in 1..3 : c < cs[i].score
          /\ (4 * S + 18 * MaxSeq(<<cs[1].score, cs[2].score, cs[3].score>>)) % 30 # 0

\* C12: for the clause "The Employer shall indemnify the Employee against
\* any and all claims whatsoever, including but not limited to ..."
\* score_clause returns a score of at least 5 and requires_attention=True.
C12_BlanketIndemnityScoresFive ==
    (clause_result # NoResult /\ clause_result.text = IndemnityScenario)
        => /\ clause_result.result.score >= 50
           /\ clause_result.result.requires_attention

\* C13: for the clause "Payment shall be made within 90 days of invoice."
\* score_clause reports a cash_flow_risk concern and a score of 1.5, and the
\* SME summary of the contract made of that clause lists the action item to
\* negotiate Net 30 or Net 45.
C13_LatePaymentIsCashFlowRisk ==
    /\ (clause_result # NoResult /\ clause_result.text = PaymentScenario)
          => /\ \E k \in 1..Len(clause_result.result.sme_concerns) :
                    clause_result.result.sme_concerns[k].type = "cash_flow_risk"
             /\ clause_result.result.score = 15
    /\ (contract_score # NoResult /\ clauses = <<PaymentScenario>>)
          => \E k \in 1..Len(get_risk_summary_for_sme(contract_score).action_items) :
                 get_risk_summary_for_sme(contract_score).action_items[k]
                     = "Negotiate for shorter payment terms (Net 30 or Net 45)"

\* C27: the risk_level that score_contract returns is the level of the
\* thresholds for the composite_score of the same result: low up to 3,
\* medium up to 6, high above.
C27_ContractLevelOfReportedScore ==
    contract_score # NoResult =>
        /\ contract_score.risk_level = "low" <=> contract_score.composite_score <= 30
        /\ contract_score.risk_level = "medium"
              <=> (30 < contract_score.composite_score /\ contract_score.composite_score <= 60)
        /\ contract_score.risk_level = "high" <=> contract_score.composite_score > 60

-----------------------------------------------------------------------------
(* Character geometry of a text: words are separated by single blanks, a   *)
(* position is a 0-based character offset as in match.start() and          *)
(* match.end().  A piece of text (a match, a context) is a record          *)
(*   words : the words it touches, a clipped word being FragmentOf(word),  *)
(*   head, tail : the characters left of a clipped first / last word,      *)
(*   pre, post : whether "..." was put before / after it,                  *)
(*   len : its length in characters.                                       *)

\* Python's None where the other values are lists of (lower-case) words.
NoneText == <<None>>

RECURSIVE Off(_, _)
\* Offset of the first character of word i.
Off(text, i) == IF i = 1 THEN 0 ELSE Off(text, i - 1) + Len(text[i - 1]) + 1

\* Offset after the last character of word i.
EndOff(text, i) == Off(text, i) + Len(text[i])

\* len(text)
TextLen(text) == IF text = <<>> THEN 0 ELSE EndOff(text, Len(text))

\* What is left of a clipped word: part of a number is a number, part of
\* another word of the vocabulary is no word that a pattern accepts.
FragmentOf(w) == IF w \in Digits \cup {"#"} THEN "#" ELSE "~"

\* Numbers as a search in a context can meet them.
AnyDigits == Digits \cup {"#"}

\* text[a:b] for a piece that touches at least one word.
Slice(text, a, b) ==
    LET touched == {i \in 1..Len(text) : Off(text, i) < b /\ EndOff(text, i) > a}
        lo == CHOOSE i \in touched : \A j \in touched : i <= j
        hi == CHOOSE i \in touched : \A j \in touched : j <= i
        headcut == Off(text, lo) < a
        tailcut == EndOff(text, hi) > b
    IN [words |-> [k \in 1..(hi - lo + 1) |->
                     IF (k = 1 /\ headcut) \/ (lo + k - 1 = hi /\ tailcut)
                     THEN FragmentOf(text[lo + k - 1]) ELSE text[lo + k - 1]],
        head |-> IF headcut THEN EndOff(text, lo) - a ELSE 0,
        tail |-> IF tailcut THEN b - Off(text, hi) ELSE 0,
        pre |-> FALSE, post |-> FALSE,
        len |-> b - a]

\* ClauseDetectors._get_context
get_context(text, start, end, window) ==
    LET context_start == Max(0, start - window)
        context_end == Min(TextLen(text), end + window)
        \* .strip() drops a blank at either end of the slice
        stripped ==
            (IF \E i \in 2..Len(text) : context_start = Off(text, i) - 1 THEN 1 ELSE 0)
            + (IF \E i \in 2..Len(text) : context_end = Off(text, i) THEN 1 ELSE 0)
    IN [Slice(text, context_start, context_end) EXCEPT
            !.pre = context_start > 0,
            !.post = context_end < TextLen(text),
            !.len = (context_end - context_start) - stripped
                    + (IF context_start > 0 THEN 3 ELSE 0)
                    + (IF context_end < TextLen(text) THEN 3 ELSE 0)]

\* Length of word k of a piece of text.
PieceLen(s, k) ==
    IF k = 1 /\ s.head > 0 THEN s.head
    ELSE IF k = Len(s.words) /\ s.tail > 0 THEN s.tail
    ELSE Len(s.words[k])

RECURSIVE PieceOff(_, _)
\* Offset of word k inside a piece of text.
PieceOff(s, k) ==
    IF k = 1 THEN (IF s.pre THEN 3 ELSE 0)
    ELSE PieceOff(s, k - 1) + PieceLen(s, k - 1) + 1

\* s[:n] for a piece of text whose first word begins before n.
Truncate(s, n) ==
    IF s.len <= n THEN s
    ELSE LET kept == {k \in 1..Len(s.words) : PieceOff(s, k) < n}
             hi == CHOOSE k \in kept : \A j \in kept : j <= k
             tailcut == PieceOff(s, hi) + PieceLen(s, hi) > n
         IN [words |-> [k \in 1..hi |->
                          IF k = hi /\ tailcut THEN FragmentOf(s.words[k]) ELSE s.words[k]],
             head |-> s.head,
             tail |-> IF tailcut THEN n - PieceOff(s, hi) ELSE 0,
             pre |-> s.pre, post |-> FALSE, len |-> n]

\* match.end() of the match [m.from, m.to) of pat: after the blank when the
\* alternative that matched ends with "\s+", inside the last word when the
\* pattern ends there.
MatchEnd(pat, text, m) ==
    LET a == CHOOSE a \in 1..Len(pat) :
                /\ MatchAlt(pat[a], 1, text, m.from) # 0
                /\ \A b \in 1..(a - 1) : MatchAlt(pat[b], 1, text, m.from) = 0
        last == pat[a][Len(pat[a])]
    IN IF last.gap THEN Off(text, m.to)
       ELSE IF last.cut > 0 THEN Off(text, m.to - 1) + last.cut
       ELSE EndOff(text, m.to - 1)

\* re.finditer(pattern, text, re.IGNORECASE): start(), end() and group(0).
Matches(pat, text) ==
    LET found == FindAll(pat, text)
    IN [k \in 1..Len(found) |->
          [start |-> Off(text, found[k].from),
           end |-> MatchEnd(pat, text, found[k]),
           group0 |-> Slice(text, Off(text, found[k].from), MatchEnd(pat, text, found[k]))]]

\* re.search(pattern, context): group(0) of the first match, or None.
SearchGroup0(pat, context) ==
    LET found == FindAll(pat, context.words)
    IN IF found = <<>> THEN NoneText
       ELSE SubSeq(context.words, found[1].from, found[1].to - 1)

-----------------------------------------------------------------------------
(* ClauseDetectors (src/src/risk_engine/clause_detectors.py)               *)
(*                                                                         *)
(* The vocabulary is lower case and has no currency sign, no percentage,   *)
(* no punctuation and no capitalised word: alternatives of a pattern that  *)
(* need one of these are left out, and a value that is extracted with one  *)
(* of them (seat, geographic_scope, cap_amount, percentage_cap) is None.   *)

\* for match in matches: the match and its context.
MatchContexts(ms, text, window) ==
    [k \in 1..Len(ms) |->
        [match |-> ms[k],
         context |-> get_context(text, ms[k].start, ms[k].end, window)]]

\* for pattern in patterns: for match in re.finditer(pattern, text): ...
ContextsOf(patterns, text, window) ==
    Flatten([p \in 1..Len(patterns) |->
        MatchContexts(Matches(patterns[p], text), text, window)])

\* The dict that a detector returns: found, count, findings, the keys of
\* its own (extra) and the recommendation, which is otherwise when there
\* are no findings.
Detection(findings, recommendation, otherwise, extra) ==
    [found |-> Len(findings) > 0,
     count |-> Len(findings),
     findings |-> findings,
     recommendation |-> IF findings # <<>> THEN recommendation ELSE otherwise]
    @@ extra

detect_penalty_clauses(text) ==
    LET found ==
            ContextsOf(
                << << <<W({"penalty"}), W({"of"}), W(Digits)>>,
                      <<W({"penalty"}), W({"amounting"}), W({"to"}), W(Digits)>> >>,
                   << <<W({"liquidated"}), W({"damage", "damages"}), W({"of"})>>,
                      <<W({"liquidated"}), W({"damage", "damages"}), W({"amounting"}), W({"to"})>>,
                      <<W({"liquidated"}), W({"damage", "damages"}), W({"equal"}), W({"to"})>> >>,
                   Phrase(<<{"forfeit", "forfeiture"}, {"of"}, {"deposit", "advance", "amount"}>>),
                   << <<W({"damage", "damages"}), W({"of"}), W(Digits), W({"times"})>>,
                      <<W({"damage", "damages"}), W({"equal"}), W({"to"}), W(Digits),
                        W({"times"})>> >> >>,
                text, 100)
    IN Detection(
           [k \in 1..Len(found) |->
                [type |-> "penalty", text |-> found[k].match.group0, context |-> found[k].context,
                 \* ([\d,]+) searched in the context: the first number
                 amount |-> SearchGroup0(Phrase(<<AnyDigits>>), found[k].context),
                 risk_level |-> "high"]],
           "Review penalty amounts and ensure they are proportionate to potential damages",
           None, <<>>)

\* Assess scope: scope_indicators["broad"], then scope_indicators["narrow"],
\* which overrides it.
ScopeOf(context) ==
    LET broad == << Phrase(<<{"all"}, {"claims"}>>),
                    Phrase(<<{"any"}, {"and"}, {"all"}>>),
                    Phrase(<<{"without"}, {"limitation"}>>),
                    Phrase(<<{"whatsoever"}>>),
                    Phrase(<<{"arising"}, {"out"}, {"of"}, {"or"}, {"relating"}, {"to"}>>) >>
        narrow == << Phrase(<<{"gross"}, {"negligence"}>>),
                     Phrase(<<{"willful"}, {"misconduct"}>>),
                     Phrase(<<{"material"}, {"breach"}>>),
                     Phrase(<<{"to"}, {"the"}, {"extent"}, {"caused"}, {"by"}>>) >>
    IN IF \E p \in 1..Len(narrow) : Search(narrow[p], context.words) THEN "narrow"
       ELSE IF \E p \in 1..Len(broad) : Search(broad[p], context.words) THEN "broad"
       ELSE "moderate"

detect_indemnity_clauses(text) ==
    LET found ==
            ContextsOf(
                << << <<W({"indemnify", "indemnification", "indemnifies"}), Opt({"and"}),
                        W({"hold"}), W({"harmless"})>>,
                      <<W({"indemnify", "indemnification", "indemnifies"}), W({"and"}), Gap>>,
                      <<W({"indemnify", "indemnification", "indemnifies"}), Gap>> >>,
                   << <<W({"hold"}), W({"harmless"}), Opt({"and"}),
                        Prefix({"indemnify", "indemnification", "indemnifies"}, 8)>> >>,
                   Phrase(<<{"defend", "defend,"}, {"indemnify", "indemnification"}>>) >>,
                text, 200)
        findings ==
            [k \in 1..Len(found) |->
                [type |-> "indemnity", text |-> found[k].match.group0, context |-> found[k].context,
                 scope |-> ScopeOf(found[k].context),
                 risk_level |-> IF ScopeOf(found[k].context) = "broad" THEN "high" ELSE "medium"]]
    IN Detection(findings,
           "Negotiate to limit indemnification scope and add caps",
           None,
           [has_broad_indemnity |-> \E k \in 1..Len(findings) : findings[k].scope = "broad"])

\* The patterns of detect_termination_clauses by term_type.
termination_patterns ==
    [unilateral |-> <<
        << <<W({"party", "company", "employer"}), W({"may"}), W({"terminate"}),
             Opt({"this"}), W({"agreement", "contract"}), Opt({"at"}), W({"any"}),
             W({"time"})>>,
           <<W({"party", "company", "employer"}), W({"may"}), W({"terminate"}),
             Opt({"this"}), W({"agreement", "contract"}), Opt({"at"}), W({"without"}),
             W({"cause"})>> >>,
        << <<W({"terminate"}), W({"immediately"})>>,
           <<W({"terminate"}), W({"without"}), W({"notice"})>>,
           <<W({"terminate"}), W({"with"}), W({"immediate"}), W({"effect"})>> >>,
        Phrase(<<{"sole"}, {"discretion"}, {"to"}, {"terminate"}>>) >>,
     mutual |-> <<
        Phrase(<<{"either"}, {"party"}, {"may"}, {"terminate"}>>),
        Phrase(<<{"mutual"}, {"agreement", "consent"}, {"to"}, {"terminate"}>>),
        << <<W({"both"}), W({"parties"}), W({"may"}), W({"terminate"})>>,
           <<W({"both"}), W({"parties"}), W({"agree"}), W({"to"}), W({"terminate"})>> >> >>,
     for_cause |-> <<
        << <<W({"terminate"}), Opt({"for"}), W({"cause", "breach", "default"})>> >>,
        << <<W({"material"}), W({"breach"}), Star, W({"terminate"})>> >>,
        Phrase(<<{"cure"}, {"period"}, {"of"}, Digits, {"days"}>>) >>]

\* findings[term_type] of detect_termination_clauses; the notice period is
\* searched as (\d+)\s*(?:days?|months?|weeks?)\s*(?:prior\s+)?notice.
TerminationFindings(term_type, text) ==
    LET found == ContextsOf(termination_patterns[term_type], text, 150)
    IN [k \in 1..Len(found) |->
          [text |-> found[k].match.group0, context |-> found[k].context,
           notice_period |->
              SearchGroup0(
                  << <<W(AnyDigits),
                       W({"day", "days", "month", "months", "week", "weeks"}),
                       Opt({"prior"}), W({"notice"})>> >>,
                  found[k].context)]]

\* A termination detector that recommends whenever it found something.
TerminationDetectionWheneverFound(findings) ==
    [found |-> \E v \in DOMAIN findings : Len(findings[v]) > 0,
     findings |-> findings,
     has_unilateral_termination |-> Len(findings.unilateral) > 0,
     is_balanced |->
        \/ Len(findings.mutual) > 0
        \/ Len(findings.unilateral) = 0
        \/ \A k \in 1..Len(findings.unilateral) :
              findings.unilateral[k].notice_period # NoneText,
     recommendation |->
        IF \E v \in DOMAIN findings : Len(findings[v]) > 0
        THEN "Ensure termination rights are mutual or include adequate notice periods"
        ELSE None]

\* A termination detector whose balance takes no account of notice periods.
TerminationDetectionWithoutNotice(findings) ==
    [found |-> \E v \in DOMAIN findings : Len(findings[v]) > 0,
     findings |-> findings,
     has_unilateral_termination |-> Len(findings.unilateral) > 0,
     is_balanced |-> Len(findings.mutual) > 0 \/ Len(findings.unilateral) = 0,
     recommendation |->
        IF findings.unilateral # <<>>
        THEN "Ensure termination rights are mutual or include adequate notice periods"
        ELSE None]

\* The dict that detect_termination_clauses returns for its findings.
TerminationDetection(findings) ==
    [found |-> \E v \in DOMAIN findings : Len(findings[v]) > 0,
     findings |-> findings,
     has_unilateral_termination |-> Len(findings.unilateral) > 0,
     is_balanced |->
        \/ Len(findings.mutual) > 0
        \/ Len(findings.unilateral) = 0
        \/ \A k \in 1..Len(findings.unilateral) :
              findings.unilateral[k].notice_period # NoneText,
     recommendation |->
        IF findings.unilateral # <<>>
        THEN "Ensure termination rights are mutual or include adequate notice periods"
        ELSE None]

detect_termination_clauses(text) ==
    TerminationDetection([unilateral |-> TerminationFindings("unilateral", text),
                          mutual |-> TerminationFindings("mutual", text),
                          for_cause |-> TerminationFindings("for_cause", text)])

detect_arbitration_clauses(text) ==
    LET found ==
            ContextsOf(
                << << <<W({"arbitration"}), W({"clause", "proceeding", "proceedings"})>>,
                      <<W({"arbitration"}), W({"shall"}), W({"be"})>> >>,
                   Phrase(<<{"submit", "submitted"}, {"to"}, {"arbitration"}>>),
                   Phrase(<<{"siac", "icc", "lcia", "aaa"}, {"rules", "arbitration"}>>),
                   Phrase(<<{"arbitration"}, {"and"}, {"conciliation"}, {"act"}>>),
                   << <<W({"seat"}), W({"of"}), Opt({"the"}), W({"arbitration"})>> >> >>,
                text, 200)
    IN Detection(
           [k \in 1..Len(found) |->
                [text |-> found[k].match.group0, context |-> found[k].context,
                 \* the seat is searched as a capitalised word
                 seat |-> NoneText,
                 \* (SIAC|ICC|LCIA|AAA|Indian\s+Arbitration)
                 rules |-> SearchGroup0(<< <<W({"siac", "icc", "lcia", "aaa"})>>,
                                           <<W({"indian"}), W({"arbitration"})>> >>,
                                        found[k].context)]],
           "Verify arbitration seat and rules are convenient for your business",
           None, <<>>)

\* (\d+)\s*(?:days?|months?)\s*(?:prior\s+)?(?:written\s+)?notice
opt_out_pattern ==
    << <<W(AnyDigits), W({"day", "days", "month", "months"}),
         Opt({"prior"}), Opt({"written"}), W({"notice"})>> >>

detect_auto_renewal(text) ==
    LET found ==
            ContextsOf(
                << Phrase(<<{"automatic", "automatically"}, {"renew", "renewal", "renewed"}>>),
                   Phrase(<<{"auto-renew", "autorenew", "auto-renewal", "autorenewal"}>>),
                   Phrase(<<{"renew", "renewed"}, {"automatically"}>>),
                   Phrase(<<{"lock-in", "lockin"}, {"period"}, {"of"}, Digits>>),
                   Phrase(<<{"minimum"}, {"term", "period", "commitment"}, {"of"}, Digits>>) >>,
                text, 150)
    IN Detection(
           [k \in 1..Len(found) |->
                [text |-> found[k].match.group0, context |-> found[k].context,
                 \* (\d+)\s*(?:years?|months?|days?)
                 duration |->
                    SearchGroup0(Phrase(<<AnyDigits, {"year", "years", "month", "months",
                                                      "day", "days"}>>), found[k].context),
                 opt_out_notice |-> SearchGroup0(opt_out_pattern, found[k].context),
                 risk_level |-> IF SearchGroup0(opt_out_pattern, found[k].context) = NoneText
                                THEN "high" ELSE "medium"]],
           "Set calendar reminders for renewal dates and negotiate opt-out terms",
           None, <<>>)

detect_non_compete(text) ==
    LET found ==
            ContextsOf(
                << << <<W({"non-compete", "noncompete", "non-competetion", "noncompetetion"}),
                        W({"clause", "covenant", "agreement", "restriction"})>>,
                      <<W({"non-compete", "noncompete", "non-competetion", "noncompetetion"}),
                        Gap>> >>,
                   Phrase(<<{"restrictive"}, {"covenant"}>>),
                   << <<W({"shall"}), W({"not"}), W({"directly"}), W({"or"}), W({"indirectly"}),
                        W({"engage", "compete", "work"})>>,
                      <<W({"shall"}), W({"not"}), W({"directly"}), W({"or"}), W({"indirectly"}),
                        W({"provide"}), W({"services"})>>,
                      <<W({"shall"}), W({"not"}), W({"engage", "compete", "work"})>>,
                      <<W({"shall"}), W({"not"}), W({"provide"}), W({"services"})>> >>,
                   << <<W({"restraint"}), Opt({"of"}), W({"trade"})>> >> >>,
                text, 200)
    IN Detection(
           [k \in 1..Len(found) |->
                [text |-> found[k].match.group0, context |-> found[k].context,
                 \* (\d+)\s*(?:years?|months?)
                 duration |->
                    SearchGroup0(Phrase(<<AnyDigits, {"year", "years", "month", "months"}>>),
                                 found[k].context),
                 \* searched after "within" or "throughout" up to ".", "," or "and"
                 geographic_scope |-> NoneText,
                 risk_level |-> "high"]],
           "Negotiate reasonable duration and geographic limits for non-compete",
           None, <<>>)

\* license|non-?exclusive|limited
license_pattern == Phrase(<<{"license", "non-exclusive", "nonexclusive", "limited"}>>)

detect_ip_transfer(text) ==
    LET found ==
            ContextsOf(
                << << <<W({"transfer", "assign", "assignment", "convey"}), Opt({"of"}),
                        Opt({"all"}), W({"intellectual"}), W({"property"})>> >>,
                   << <<W({"intellectual"}), W({"property"}), Opt({"right", "rights"}),
                        Opt({"shall"}), W({"belong", "vest"}), W({"in", "with"})>> >>,
                   << <<W({"work"}), Opt({"made"}), W({"for"}), W({"hire"})>> >>,
                   Phrase(<<{"assign"}, {"all"}, {"right", "right,"}, {"title", "title,"},
                            {"and"}, {"interest"}>>),
                   << <<W({"copyright", "patent", "trademark"}), Opt({"shall"}),
                        Prefix({"belong", "belongs"}, 6)>>,
                      <<W({"copyright", "patent", "trademark"}), Opt({"shall"}),
                        Prefix({"vest", "vests"}, 4)>> >> >>,
                text, 200)
        findings ==
            [k \in 1..Len(found) |->
                [text |-> found[k].match.group0, context |-> found[k].context,
                 is_full_transfer |-> ~Search(license_pattern, found[k].context.words),
                 risk_level |-> IF ~Search(license_pattern, found[k].context.words)
                                THEN "high" ELSE "medium"]]
    IN Detection(findings,
           "Consider retaining license rights or limiting IP transfer scope",
           None,
           [has_full_transfer |-> \E k \in 1..Len(findings) : findings[k].is_full_transfer])

detect_confidentiality(text) ==
    LET found ==
            ContextsOf(
                << Phrase(<<{"confidential", "confidentiality"},
                            {"information", "agreement", "obligation", "clause"}>>),
                   Phrase(<<{"non-disclosure", "nondisclosure"}, {"agreement", "obligation"}>>),
                   Phrase(<<{"proprietary"}, {"information"}>>),
                   Phrase(<<{"trade"}, {"secret"}>>) >>,
                text, 200)
    IN Detection(
           [k \in 1..Len(found) |->
                [text |-> found[k].match.group0, context |-> found[k].context,
                 \* (\d+)\s*(?:years?)
                 duration |-> SearchGroup0(Phrase(<<AnyDigits, {"year", "years"}>>),
                                           found[k].context)]],
           "Ensure confidentiality requirements are mutual and have reasonable duration",
           None, <<>>)

detect_liability_caps(text) ==
    LET found ==
            ContextsOf(
                << << <<W({"limitation"}), Opt({"of"}), W({"liability"})>> >>,
                   << <<W({"aggregate", "total", "maximum"}), W({"liability"}), Opt({"shall"}),
                        Opt({"not"}), W({"exceed"})>> >>,
                   << <<W({"liability"}), W({"shall"}), W({"be"}), W({"limited"}), W({"to"})>>,
                      <<W({"liability"}), W({"limited"}), W({"to"})>> >>,
                   Phrase(<<{"cap", "capped"}, {"at", "to"}, Digits>>) >>,
                text, 200)
        findings ==
            [k \in 1..Len(found) |->
                [text |-> found[k].match.group0, context |-> found[k].context,
                 \* the amount is searched after a currency sign, the
                 \* percentage as a number followed by "%"
                 cap_amount |-> NoneText,
                 percentage_cap |-> NoneText]]
    IN Detection(findings,
           "Verify liability cap is adequate for potential damages",
           "Consider negotiating a liability cap",
           [has_cap |-> Len(findings) > 0])

\* The nine detectors in the order in which detect_all lists them.
DetectorNames == <<"penalty_clauses", "indemnity_clauses", "termination_clauses",
                   "arbitration_clauses", "auto_renewal_clauses", "non_compete_clauses",
                   "ip_transfer_clauses", "confidentiality_clauses", "liability_caps">>

detect_all(text) ==
    [penalty_clauses |-> detect_penalty_clauses(text),
     indemnity_clauses |-> detect_indemnity_clauses(text),
     termination_clauses |-> detect_termination_clauses(text),
     arbitration_clauses |-> detect_arbitration_clauses(text),
     auto_renewal_clauses |-> detect_auto_renewal(text),
     non_compete_clauses |-> detect_non_compete(text),
     ip_transfer_clauses |-> detect_ip_transfer(text),
     confidentiality_clauses |-> detect_confidentiality(text),
     liability_caps |-> detect_liability_caps(text)]

-----------------------------------------------------------------------------
(* RiskReportGenerator (src/src/risk_engine/risk_report.py)                *)

\* d.get(key, default) on a dict.
Get(d, key, default) == IF key \in DOMAIN d THEN d[key] ELSE default

\* The empty dict.
EmptyDict == <<>>

\* An exception that leaves the call.
Raised(exception) == [raised |-> exception]
Exceptions == {"AttributeError", "TypeError"}
\* For a result that is a dict when the call returns.
IsRaised(result) == \E exception \in Exceptions : result = Raised(exception)

\* seq[:n]
Take(seq, n) == SubSeq(seq, 1, Min(n, Len(seq)))

\* The empty string as a piece of text.
EmptyPiece ==
    [words |-> <<>>, head |-> 0, tail |-> 0, pre |-> FALSE, post |-> FALSE, len |-> 0]

\* The whole text as a piece of text.
PieceOf(text) == IF text = <<>> THEN EmptyPiece ELSE Slice(text, 0, TextLen(text))

\* detect_termination_clauses builds "findings" as a dict of three lists,
\* the other eight detectors build a list.
FindingsIsDict(clause_type) == clause_type = "termination_clauses"

\* clause_type.replace("_", " ").title()
Title(clause_type) ==
    CASE clause_type = "penalty_clauses" -> "Penalty Clauses"
      [] clause_type = "indemnity_clauses" -> "Indemnity Clauses"
      [] clause_type = "termination_clauses" -> "Termination Clauses"
      [] clause_type = "arbitration_clauses" -> "Arbitration Clauses"
      [] clause_type = "auto_renewal_clauses" -> "Auto Renewal Clauses"
      [] clause_type = "non_compete_clauses" -> "Non Compete Clauses"
      [] clause_type = "ip_transfer_clauses" -> "Ip Transfer Clauses"
      [] clause_type = "confidentiality_clauses" -> "Confidentiality Clauses"
      [] clause_type = "liability_caps" -> "Liability Caps"

format_contract_info(info) ==
    [file_name |-> Get(info, "file_name", "Unknown"),
     contract_type |-> Get(info, "contract_type", "Unknown"),
     language |-> Get(info, "language", "en"),
     page_count |-> Get(info, "page_count", 0),
     word_count |-> Get(info, "word_count", 0)]

\* any(f.get("risk_level") == "high" for f in detection.get("findings", []))
\* for a detection that found something.
AnyHighFinding(detections, clause_type) ==
    LET findings == Get(detections[clause_type], "findings", <<>>)
    IN \E k \in 1..Len(findings) : Get(findings[k], "risk_level", None) = "high"

\* The detections whose findings are counted as a high-risk item.
HighRiskItems(detections) ==
    {k \in 1..Len(DetectorNames) :
        /\ detections[DetectorNames[k]].found
        /\ AnyHighFinding(detections, DetectorNames[k])}

get_one_liner(composite_score, high_risk_count) ==
    IF composite_score >= 70
    THEN <<"[HIGH RISK] Contract has ", high_risk_count,
           " high-risk clauses requiring immediate attention">>
    ELSE IF composite_score >= 50
    THEN <<"[MODERATE RISK] Contract has some concerning terms - review recommended">>
    ELSE <<"[LOW RISK] Contract terms appear generally balanced and fair">>

\* Some detection found something and holds its findings in a dict.
FoundWithDict(detections) ==
    \E k \in 1..Len(DetectorNames) :
        /\ detections[DetectorNames[k]].found
        /\ FindingsIsDict(DetectorNames[k])

\* Iterating the findings of a dict yields its keys, and a key, a str, has
\* no get: the first such detection that found something ends the call.
generate_executive_summary(risk_score, detections, compliance) ==
    LET composite_score == Get(risk_score, "composite_score", 0)
        compliance_score == Get(compliance, "compliance_score", 0)
        high_risk_count == Cardinality(HighRiskItems(detections))
        status == IF composite_score >= 70 \/ high_risk_count >= 3 THEN "HIGH_RISK"
                  ELSE IF composite_score >= 50 \/ high_risk_count >= 1 THEN "MODERATE_RISK"
                  ELSE "LOW_RISK"
    IN IF FoundWithDict(detections)
       THEN Raised("AttributeError")
       ELSE [overall_status |-> status,
             status_color |-> CASE status = "HIGH_RISK" -> "red"
                                [] status = "MODERATE_RISK" -> "yellow"
                                [] status = "LOW_RISK" -> "green",
             risk_score |-> composite_score,
             compliance_score |-> compliance_score,
             high_risk_items |-> high_risk_count,
             primary_recommendation |->
                 CASE status = "HIGH_RISK" ->
                        "Recommend professional legal review before signing"
                   [] status = "MODERATE_RISK" ->
                        "Review flagged clauses carefully, consider negotiating terms"
                   [] status = "LOW_RISK" ->
                        "Contract appears balanced, standard review sufficient",
             one_liner |-> get_one_liner(composite_score, high_risk_count)]

format_risk_assessment(risk_score, detections) ==
    [composite_score |-> Get(risk_score, "composite_score", 0),
     risk_level |-> Get(risk_score, "risk_level", "unknown"),
     severity_distribution |-> Get(risk_score, "severity_distribution", EmptyDict),
     clause_scores |-> Take(Get(risk_score, "clause_scores", <<>>), 10),
     sme_concerns |-> Get(risk_score, "sme_concerns", <<>>),
     detected_clauses |->
        [name \in DOMAIN detections |->
            [found |-> Get(detections[name], "found", FALSE),
             count |-> Get(detections[name], "count", 0),
             recommendation |-> Get(detections[name], "recommendation", None)]]]

\* The key findings of one detection: of its first two findings those of
\* risk level "high".
DetectionKeyFindings(detections, clause_type) ==
    LET detection == detections[clause_type]
        top == Take(Get(detection, "findings", <<>>), 2)
    IN IF ~detection.found THEN <<>>
       ELSE Flatten([k \in 1..Len(top) |->
                IF Get(top[k], "risk_level", None) = "high"
                THEN << [priority |-> 0,
                         category |-> Title(clause_type),
                         severity |-> "HIGH",
                         description |-> Truncate(top[k].text, 100),
                         context |-> Truncate(top[k].context, 200),
                         recommendation |-> Get(detection, "recommendation", None)] >>
                ELSE <<>>])

RECURSIVE SortByPriority(_)
\* findings.sort(key=lambda x: x["priority"]): a stable sort.
SortByPriority(findings) ==
    IF findings = <<>> THEN <<>>
    ELSE LET least == CHOOSE k \in 1..Len(findings) :
                         /\ \A j \in 1..Len(findings) :
                               findings[k].priority <= findings[j].priority
                         /\ \A j \in 1..(k - 1) :
                               findings[j].priority # findings[k].priority
         IN <<findings[least]>> \o
            SortByPriority(SubSeq(findings, 1, least - 1) \o
                           SubSeq(findings, least + 1, Len(findings)))

\* A slice of a dict (the findings of the termination detector) is an
\* error: TypeError up to Python 3.11, KeyError from 3.12 on.
compile_key_findings(detections, risk_score, obligations) ==
    LET from_clauses == Flatten([k \in 1..Len(DetectorNames) |->
                            DetectionKeyFindings(detections, DetectorNames[k])])
        one_sided == Get(obligations, "one_sided_terms", EmptyDict)
        concerns == Take(Get(one_sided, "concerns", <<>>), 3)
        from_terms == [k \in 1..Len(concerns) |->
                          [priority |-> 0,
                           category |-> "One-Sided Terms",
                           severity |-> "MEDIUM",
                           description |-> concerns[k],
                           recommendation |->
                               "Consider negotiating for more balanced terms"]]
        listed == from_clauses \o from_terms
        findings == [k \in 1..Len(listed) |-> [listed[k] EXCEPT !.priority = k]]
    IN IF FoundWithDict(detections)
       THEN Raised("TypeError")
       ELSE Take(SortByPriority(findings), 10)

format_compliance(compliance) ==
    [score |-> Get(compliance, "compliance_score", 0),
     issues |-> Get(compliance, "issues", <<>>),
     warnings |-> Get(compliance, "warnings", <<>>),
     recommendations |-> Get(compliance, "recommendations", <<>>)]

\* [d.get(key) for d in dicts]
GetEach(dicts, key) == [k \in 1..Len(dicts) |-> Get(dicts[k], key, None)]

format_extracted_terms(entities) ==
    LET parties == Get(entities, "parties", <<>>)
        amounts == Get(entities, "amounts", <<>>)
    IN [parties |-> [k \in 1..Len(parties) |->
                        [name |-> Get(parties[k], "name", None),
                         type |-> Get(parties[k], "type", None)]],
        dates |-> GetEach(Get(entities, "dates", <<>>), "raw"),
        amounts |-> [k \in 1..Len(amounts) |->
                        [value |-> Get(amounts[k], "value", None),
                         currency |-> Get(amounts[k], "currency", None)]],
        durations |-> GetEach(Get(entities, "durations", <<>>), "raw"),
        jurisdictions |-> Get(entities, "jurisdictions", <<>>)]

\* [o.get("text", "")[:200] for o in items[:5]]
KeyTexts(items) ==
    [k \in 1..Len(Take(items, 5)) |-> Truncate(Get(items[k], "text", EmptyPiece), 200)]

format_obligations(obligations) ==
    LET summary == Get(obligations, "summary", EmptyDict)
    IN [total_obligations |-> Get(summary, "total_obligations", 0),
        total_rights |-> Get(summary, "total_rights", 0),
        total_prohibitions |-> Get(summary, "total_prohibitions", 0),
        strong_obligations |-> Get(summary, "strong_obligations", 0),
        key_obligations |-> KeyTexts(Get(obligations, "obligations", <<>>)),
        key_prohibitions |-> KeyTexts(Get(obligations, "prohibitions", <<>>))]

generate_recommendations(risk_score, detections, compliance) ==
    LET from_clauses == Flatten([k \in 1..Len(DetectorNames) |->
            LET detection == detections[DetectorNames[k]]
            IN IF detection.found /\ Get(detection, "recommendation", None) \notin {None, ""}
               THEN << [category |-> Title(DetectorNames[k]),
                        action |-> detection.recommendation,
                        priority |-> IF \/ Get(detection, "has_broad_indemnity", FALSE)
                                        \/ Get(detection, "has_full_transfer", FALSE)
                                     THEN "high" ELSE "medium"] >>
               ELSE <<>>])
        recs == Get(compliance, "recommendations", <<>>)
        from_compliance == [k \in 1..Len(recs) |->
            [category |-> "Compliance", action |-> recs[k], priority |-> "medium"]]
        sme == Get(risk_score, "sme_concerns", <<>>)
        from_sme == Flatten([k \in 1..Len(sme) |->
            IF Get(sme[k], "type", None) = "cash_flow_risk"
            THEN << [category |-> "Cash Flow",
                     action |-> "Negotiate for shorter payment terms (Net 30 or Net 45)",
                     priority |-> "high"] >>
            ELSE <<>>])
    IN Take(from_clauses \o from_compliance \o from_sme, 10)

generate_next_steps(risk_score) ==
    LET score == Get(risk_score, "composite_score", 0)
    IN IF score >= 70
       THEN <<"1. Do NOT sign this contract without professional legal review",
              "2. Identify the top 3 high-risk clauses for negotiation",
              "3. Prepare counter-proposals for risky terms",
              "4. Consider seeking alternative vendors/partners if negotiation fails",
              "5. Document all negotiations and changes">>
       ELSE IF score >= 50
       THEN <<"1. Review all flagged clauses carefully",
              "2. Create a list of terms you want to negotiate",
              "3. Discuss concerns with the other party",
              "4. Consider limited legal review for high-risk clauses",
              "5. Ensure all agreed changes are documented in writing">>
       ELSE <<"1. Perform a final read-through of the contract",
              "2. Verify all details (names, dates, amounts) are correct",
              "3. Ensure you have copies of all related documents",
              "4. Sign and retain a copy for your records",
              "5. Set reminders for key dates (renewals, reviews)">>

\* The report dict is built entry by entry: the first entry that raises
\* ends the call.  now is datetime.now() as the call reads it.
generate_report(contract_info, risk_score, detections, compliance, entities, obligations, now) ==
    LET executive_summary == generate_executive_summary(risk_score, detections, compliance)
        key_findings == compile_key_findings(detections, risk_score, obligations)
    IN IF IsRaised(executive_summary) THEN executive_summary
       ELSE IF FoundWithDict(detections) THEN key_findings
       ELSE [report_id |-> <<"CR-", now>>,
             generated_at |-> now,
             contract_info |-> format_contract_info(contract_info),
             executive_summary |-> executive_summary,
             risk_assessment |-> format_risk_assessment(risk_score, detections),
             key_findings |-> key_findings,
             compliance_status |-> format_compliance(compliance),
             extracted_terms |-> format_extracted_terms(entities),
             obligations_summary |-> format_obligations(obligations),
             recommendations |-> generate_recommendations(risk_score, detections, compliance),
             next_steps |-> generate_next_steps(risk_score)]

-----------------------------------------------------------------------------
(* The detectors and the report generator at work: a contract text is      *)
(* analysed by detect_all, and a report is generated from the detections   *)
(* and from the results of the other analyses.                             *)

\* Contract texts are put together from these phrases.
DetectPhrases ==
    { <<"penalty", "of", "30">>,
      <<"liquidated", "damages", "of", "30", "times">>,
      <<"indemnify", "against", "all", "claims">>,
      <<"either", "party", "may", "terminate">>,
      <<"terminate", "immediately">>,
      <<"automatic", "renewal">>,
      <<"30", "days", "notice">>,
      <<"non-compete", "clause">>,
      <<"work", "for", "hire">>,
      <<"trade", "secret">>,
      <<"submitted", "to", "arbitration">>,
      <<"limitation", "of", "liability">>,
      <<"this", "agreement", "may", "be", "terminated", "by", "either", "party", "upon",
        "thirty", "(30)", "days", "written", "notice.">>,
      <<"the">> }

\* A renewal clause with its notice period, and one more renewal clause
\* more than 150 characters further on.
RenewalScenario ==
    <<"automatic", "renewal", "30", "days", "notice", "automatic", "renewal">>
    \o [k \in 1..40 |-> "the"] \o <<"automatic", "renewal">>

\* The most phrases in one contract text.
MaxDetectPhrases == 2

\* Risk scores as score_contract returns them, from 0.0 up to the bands
\* of the report (4.8, 5.0, 6.5, 7.0).
RiskScoreInputs ==
    UNION { score_contract(cls) : cls \in
        { <<>>,
          << <<"perpetual", "irrevocable", "unconditional">>, <<"the">> >>,
          << <<"perpetual", "irrevocable", "terminate", "immediately">> >>,
          << <<"perpetual", "irrevocable", "terminate", "immediately", "net", "90">> >>,
          << <<"perpetual", "irrevocable", "terminate", "immediately",
               "liquidated", "damages">> >> } }

\* Results of the other analyses: none at all (every key is missing), or
\* a full set.
OtherInputs ==
    { [contract_info |-> EmptyDict, compliance |-> EmptyDict, entities |-> EmptyDict,
       obligations |-> EmptyDict, now |-> "20240101000000"],
      [contract_info |-> [file_name |-> "contract.pdf", contract_type |-> "service_agreement",
                          language |-> "en", page_count |-> 2, word_count |-> 120],
       compliance |-> [compliance_score |-> 750,
                       issues |-> <<"Consideration or payment terms - not clearly specified">>,
                       warnings |-> <<>>,
                       recommendations |-> <<"Address all compliance issues before signing">>],
       entities |-> [parties |-> <<[name |-> "Acme Ltd", type |-> "company"]>>,
                     dates |-> <<[raw |-> "1 January 2024"]>>,
                     amounts |-> <<[value |-> 5000, currency |-> "INR"]>>,
                     durations |-> <<[raw |-> "12 months"]>>,
                     jurisdictions |-> <<"Mumbai">>],
       obligations |-> [summary |-> [total_obligations |-> 6, total_rights |-> 4,
                                     total_prohibitions |-> 1, strong_obligations |-> 4],
                        obligations |-> <<[text |-> PieceOf(<<"the", "contractor", "shall",
                                                              "deliver">>)]>>,
                        prohibitions |-> <<[text |-> PieceOf(<<"shall", "not", "compete">>)]>>,
                        one_sided_terms |->
                            [concerns |-> <<"Exclusive right favoring first party: a...",
                                            "Exclusive right favoring first party: b...",
                                            "Exclusive right favoring first party: c...",
                                            "Exclusive right favoring first party: d...">>]],
       now |-> "20240101000001"] }

InitReport ==
    /\ contract_text \in UNION {TextsOf(DetectPhrases, n) : n \in 0..MaxDetectPhrases}
                         \cup {RenewalScenario}
    /\ clause_detections = NoResult
    /\ report = NoResult
    /\ Idle("report")

\* detections = clause_detectors.detect_all(text)
DetectAll ==
    /\ clause_detections = NoResult
    /\ clause_detections' = detect_all(contract_text)
    /\ UNCHANGED <<contract_text, report>>
    /\ Frame("report")

\* report = report_generator.generate_report(...) on the detections: the
\* report, or the exception that the call raises.
GenerateReport ==
    /\ clause_detections # NoResult
    /\ report = NoResult
    /\ \E risk_score \in RiskScoreInputs, other \in OtherInputs :
          report' = [risk_score |-> risk_score,
                     other |-> other,
                     result |-> generate_report(other.contract_info, risk_score,
                                                clause_detections, other.compliance,
                                                other.entities, other.obligations,
                                                other.now)]
    /\ UNCHANGED <<contract_text, clause_detections>>
    /\ Frame("report")

NextReport == DetectAll \/ GenerateReport

SpecReport == InitReport /\ [][NextReport]_vars

-----------------------------------------------------------------------------
(* Claims about the detectors and the report generator                     *)

\* C2: for every input text, generate_report on the result of detect_all
\* (with the results of the other analyses) returns a report and never
\* raises, in particular when the termination detector found something,
\* whose findings are a dict of three lists and not a list.
C2_ReportNeverRaises ==
    report # NoResult => ~IsRaised(report.result)

\* C9: overall_status is HIGH_RISK exactly when the composite score is at
\* least 7 or the detectors produced at least 3 findings of risk level
\* "high", otherwise MODERATE_RISK exactly when the composite score is at
\* least 5 or there is at least 1 such finding, otherwise LOW_RISK; the
\* findings are counted, so three of one detector suffice for HIGH_RISK.
C9_StatusCountsFindings ==
    (report # NoResult /\ ~IsRaised(report.result)) =>
        LET composite_score == report.result.executive_summary.risk_score
            high_findings ==
                SumSeq([d \in 1..Len(DetectorNames) |->
                    IF FindingsIsDict(DetectorNames[d]) THEN 0
                    ELSE Cardinality(
                        {k \in 1..Len(clause_detections[DetectorNames[d]].findings) :
                            Get(clause_detections[DetectorNames[d]].findings[k],
                                "risk_level", None) = "high"})])
        IN report.result.executive_summary.overall_status =
              IF composite_score >= 70 \/ high_findings >= 3 THEN "HIGH_RISK"
              ELSE IF composite_score >= 50 \/ high_findings >= 1 THEN "MODERATE_RISK"
              ELSE "LOW_RISK"

\* C10: the recommendation of the penalty, indemnity, arbitration,
\* auto-renewal, non-compete, IP-transfer and confidentiality detectors is
\* None when found is False and a non-empty string when found is True; that
\* of the termination detector is a non-empty string when it has a
\* unilateral finding and None otherwise, also when found is True; that of
\* the liability-cap detector is a non-empty string in both cases.
C10_RecommendationByDetector ==
    clause_detections # NoResult =>
        \A d \in 1..Len(DetectorNames) :
            LET detection == clause_detections[DetectorNames[d]]
                is_string == detection.recommendation \notin {None, ""}
            IN CASE DetectorNames[d] = "termination_clauses" ->
                      is_string <=> detection.has_unilateral_termination
                 [] DetectorNames[d] = "liability_caps" -> is_string
                 [] OTHER -> is_string <=> detection.found

\* The detectors ran on a text in which the termination detector found a
\* mutual right only and recommends nothing, the liability-cap detector
\* found nothing and recommends a cap, and another detector found something.
C10_Witness ==
    /\ clause_detections # NoResult
    /\ clause_detections.termination_clauses.found
    /\ Len(clause_detections.termination_clauses.findings.mutual) > 0
    /\ clause_detections.termination_clauses.recommendation = None
    /\ ~clause_detections.liability_caps.found
    /\ clause_detections.liability_caps.recommendation =
          "Consider negotiating a liability cap"
    /\ clause_detections.penalty_clauses.found
    /\ clause_detections.penalty_clauses.recommendation # None
    /\ ~clause_detections.indemnity_clauses.found
    /\ clause_detections.indemnity_clauses.recommendation = None

\* C10 as stated: for each of the nine detectors the recommendation is None
\* when found is False and a non-empty string when found is True.
C10_RecommendationIffFound ==
    clause_detections # NoResult =>
        \A d \in 1..Len(DetectorNames) :
            LET detection == clause_detections[DetectorNames[d]]
            IN IF detection.found THEN detection.recommendation \notin {None, ""}
               ELSE detection.recommendation = None

\* C11: for the text "This Agreement may be terminated by either party upon
\* thirty (30) days written notice." detect_termination_clauses returns
\* found=True with one finding under 'mutual' that has the notice period
\* from '30' to 'notice', is_balanced=True, has_unilateral_termination=False
\* and no recommendation.
C11_PassiveMutualTerminationFound ==
    (/\ clause_detections # NoResult
     /\ contract_text = <<"this", "agreement", "may", "be", "terminated", "by", "either",
                          "party", "upon", "thirty", "(30)", "days", "written", "notice.">>)
        => /\ clause_detections.termination_clauses.found
           /\ Len(clause_detections.termination_clauses.findings.mutual) = 1
           /\ clause_detections.termination_clauses.findings.mutual[1].notice_period # NoneText
           /\ clause_detections.termination_clauses.is_balanced
           /\ ~clause_detections.termination_clauses.has_unilateral_termination
           /\ clause_detections.termination_clauses.recommendation = None

\* C25: detect_termination_clauses reports is_balanced exactly when there
\* is a mutual finding, or no unilateral finding, or every unilateral
\* finding has a notice period; has_unilateral_termination exactly when
\* there is a unilateral finding; so an unbalanced result has a unilateral
\* termination and a recommendation.
C25_BalancedIffMutualOrNoticed ==
    clause_detections # NoResult =>
        LET termination == clause_detections.termination_clauses
            unilateral == termination.findings.unilateral
            mutual == termination.findings.mutual
            Noticed(f) == f.notice_period # NoneText /\ f.notice_period # EmptyText
        IN /\ termination.is_balanced
                 <=> \/ mutual # <<>>
                     \/ unilateral = <<>>
                     \/ \A k \in 1..Len(unilateral) : Noticed(unilateral[k])
           /\ termination.has_unilateral_termination <=> unilateral # <<>>
           /\ ~termination.is_balanced
                 => /\ termination.has_unilateral_termination
                    /\ termination.recommendation # None

\* C25 witness: a unilateral termination with a notice period next to it
\* was found balanced, with the recommendation of a unilateral finding.
C25_Witness ==
    /\ clause_detections # NoResult
    /\ contract_text = <<"terminate", "immediately", "30", "days", "notice">>
    /\ Len(clause_detections.termination_clauses.findings.unilateral) = 1
    /\ clause_detections.termination_clauses.findings.mutual = <<>>
    /\ clause_detections.termination_clauses.is_balanced
    /\ clause_detections.termination_clauses.has_unilateral_termination
    /\ clause_detections.termination_clauses.recommendation # None

\* C26: key_findings has at most 10 entries with the priorities 1..n in
\* the order of the list; the entries of the detectors come first, at most
\* 2 of each detector and all of severity HIGH, and the high-risk findings
\* of a detector are among them (up to 2) even when findings of a lower
\* risk come before them in its list; at most 3 one-sidedness concerns
\* follow.
C26_TopHighFindingsPerDetector ==
    (report # NoResult /\ ~IsRaised(report.result)) =>
        LET key_findings == report.result.key_findings
            Entries(category) ==
                {k \in 1..Len(key_findings) : key_findings[k].category = category}
            concerns == Entries("One-Sided Terms")
            HighOf(clause_type) ==
                {k \in 1..Len(clause_detections[clause_type].findings) :
                    Get(clause_detections[clause_type].findings[k], "risk_level", None) = "high"}
        IN /\ Len(key_findings) <= 10
           /\ \A k \in 1..Len(key_findings) : key_findings[k].priority = k
           /\ Cardinality(concerns) <= 3
           /\ \A k \in 1..Len(key_findings) :
                 IF k \in concerns
                 THEN \A j \in 1..(k - 1) : j \in concerns \/ key_findings[j].severity = "HIGH"
                 ELSE key_findings[k].severity = "HIGH" /\ \A j \in concerns : k < j
           /\ \A d \in 1..Len(DetectorNames) :
                 /\ Cardinality(Entries(Title(DetectorNames[d]))) <= 2
                 /\ (Len(key_findings) < 10 /\ ~FindingsIsDict(DetectorNames[d]))
                       => Cardinality(Entries(Title(DetectorNames[d])))
                             = Min(2, Cardinality(HighOf(DetectorNames[d])))

\* C28: within one report overall_status, one_liner and next_steps name
\* the same risk band: HIGH_RISK goes with the "[HIGH RISK]" one-liner and
\* the "Do NOT sign" playbook, MODERATE_RISK with the "[MODERATE RISK]"
\* one-liner and the "Review all flagged clauses" playbook, LOW_RISK with
\* the "[LOW RISK]" one-liner and the "final read-through" playbook.
C28_StatusOneLinerAndPlaybookAgree ==
    (report # NoResult /\ ~IsRaised(report.result)) =>
        LET status == report.result.executive_summary.overall_status
            one_liner == report.result.executive_summary.one_liner[1]
            first_step == report.result.next_steps[1]
            Starts(s, prefix) == SubSeq(s, 1, Len(prefix)) = prefix
        IN /\ status = "HIGH_RISK"
                 <=> Starts(one_liner, "[HIGH RISK]")
           /\ status = "HIGH_RISK"
                 <=> Starts(first_step, "1. Do NOT sign")
           /\ status = "MODERATE_RISK"
                 <=> Starts(one_liner, "[MODERATE RISK]")
           /\ status = "MODERATE_RISK"
                 <=> Starts(first_step, "1. Review all flagged clauses")
           /\ status = "LOW_RISK"
                 <=> Starts(one_liner, "[LOW RISK]")
           /\ status = "LOW_RISK"
                 <=> Starts(first_step, "1. Perform a final read-through")

-----------------------------------------------------------------------------
(* Strings and Python's re.  A text of the components below is a string,   *)
(* and a pattern is the string of the source, compiled to a sequence of    *)
(* nodes:                                                                  *)
(*   lit  : the characters s                                               *)
(*   run  : a repetition, lo to hi times (hi = -1: no limit), of one       *)
(*          character that is in cs (neg: that is not in cs)               *)
(*   rep  : a repetition of the sequence re                                *)
(*   alt  : the first of the sequences alts that lets the rest match       *)
(*   open, close : the limits of group g                                   *)
(*   b, bol, eol : a word boundary, the start and the end of the string    *)
(* A match is a record of the position after it (end, 0 for no match) and  *)
(* of the positions where its groups begin (from) and end (to); positions  *)
(* count from 1.                                                           *)

\* The element of a set of one element.  The({e : x \in {v}}) is the value
\* of e for x = v, with v worked out once.
The(S) == CHOOSE x \in S : TRUE

\* s[i - 1] in Python's counting, "" outside the string.
CharAt(s, i) == IF i >= 1 /\ i <= Len(s) THEN SubSeq(s, i, i) ELSE ""

\* The printable ASCII characters in code order: from " " (32) to "_" (95)
\* and from "a" (97) to "~" (126).
Ascii ==
    <<" !\"#$%&'()*+,-./0123456789:;<=>?@ABCDEFGHIJKLMNOPQRSTUVWXYZ[\\]^_",
      "abcdefghijklmnopqrstuvwxyz{|}~">>

\* ord(c), of the printable characters and of the white space.
Ord ==
    <<>> @@
    [c \in {CharAt(Ascii[1], k) : k \in 1..Len(Ascii[1])}
            \cup {CharAt(Ascii[2], k) : k \in 1..Len(Ascii[2])}
            \cup {"\t", "\n", "\f", "\r"} |->
        IF \E k \in 1..Len(Ascii[1]) : CharAt(Ascii[1], k) = c
        THEN 31 + CHOOSE k \in 1..Len(Ascii[1]) : CharAt(Ascii[1], k) = c
        ELSE IF \E k \in 1..Len(Ascii[2]) : CharAt(Ascii[2], k) = c
        THEN 96 + CHOOSE k \in 1..Len(Ascii[2]) : CharAt(Ascii[2], k) = c
        ELSE IF c = "\t" THEN 9 ELSE IF c = "\n" THEN 10 ELSE IF c = "\f" THEN 12 ELSE 13]

\* chr(n)
Chr(n) == IF n < 96 THEN CharAt(Ascii[1], n - 31) ELSE CharAt(Ascii[2], n - 96)

RECURSIVE Lower(_)
\* str.lower()
Lower(s) ==
    IF Len(s) = 0 THEN s
    ELSE IF Len(s) = 1
    THEN IF Ord[s] >= 65 /\ Ord[s] <= 90 THEN Chr(Ord[s] + 32) ELSE s
    ELSE Lower(SubSeq(s, 1, Len(s) \div 2)) \o Lower(SubSeq(s, Len(s) \div 2 + 1, Len(s)))

\* The characters that the escape \c stands for.
Escaped(c) ==
    IF c = "d" THEN {Chr(n) : n \in 48..57}
    ELSE IF c = "s" THEN {" ", "\t", "\n", "\r", "\f"}
    ELSE IF c = "w" THEN {Chr(n) : n \in (48..57) \cup (65..90) \cup {95} \cup (97..122)}
    ELSE IF c = "n" THEN {"\n"}
    ELSE IF c = "t" THEN {"\t"}
    ELSE {c}

RECURSIVE ParseSet(_, _)
\* The characters of a set [...] from position i of pattern p up to "]".
ParseSet(p, i) ==
    IF CharAt(p, i) = "]" THEN [cs |-> {}, pos |-> i + 1]
    ELSE The({[cs |-> r.cs \cup r.more.cs, pos |-> r.more.pos] : r \in {
             IF CharAt(p, i) = "\\"
             THEN [cs |-> Escaped(CharAt(p, i + 1)), more |-> ParseSet(p, i + 2)]
             ELSE IF CharAt(p, i + 1) = "-" /\ CharAt(p, i + 2) # "]"
             THEN [cs |-> {Chr(n) : n \in (Ord[CharAt(p, i)]..Ord[CharAt(p, i + 2)]) \ {96}},
                   more |-> ParseSet(p, i + 3)]
             ELSE [cs |-> {CharAt(p, i)}, more |-> ParseSet(p, i + 1)]}})

\* The item atom of pattern p with the quantifier that follows it: ?, *, +,
\* {m}, {m,} or {m,n} with numbers of one digit, lazy with a "?" after it.
Quantified(p, atom) ==
    LET q == CharAt(p, atom.pos)
        comma == CharAt(p, atom.pos + 2) = ","
        open == CharAt(p, atom.pos + 3) = "}"
        lo == IF q = "{" THEN Ord[CharAt(p, atom.pos + 1)] - 48
              ELSE IF q = "+" THEN 1 ELSE 0
        hi == IF q = "{"
              THEN IF ~comma THEN Ord[CharAt(p, atom.pos + 1)] - 48
                   ELSE IF open THEN -1 ELSE Ord[CharAt(p, atom.pos + 3)] - 48
              ELSE IF q = "?" THEN 1 ELSE -1
        after == IF q = "{"
                 THEN IF ~comma THEN atom.pos + 3
                      ELSE IF open THEN atom.pos + 4 ELSE atom.pos + 5
                 ELSE atom.pos + 1
    IN IF q \notin {"?", "*", "+", "{"} THEN atom
       ELSE [re |-> IF Len(atom.re) = 1 /\ atom.re[1].k = "lit"
                    THEN <<[k |-> "run", lo |-> lo, hi |-> hi, neg |-> FALSE,
                            lazy |-> CharAt(p, after) = "?", cs |-> {atom.re[1].s}]>>
                    ELSE IF Len(atom.re) = 1 /\ atom.re[1].k = "run"
                    THEN <<[atom.re[1] EXCEPT !.lo = lo, !.hi = hi,
                                              !.lazy = CharAt(p, after) = "?"]>>
                    ELSE <<[k |-> "rep", re |-> atom.re, lo |-> lo, hi |-> hi,
                            lazy |-> CharAt(p, after) = "?"]>>,
             pos |-> IF CharAt(p, after) = "?" THEN after + 1 ELSE after,
             g |-> atom.g]

RECURSIVE ParseAlt(_, _, _, _)

\* One item of pattern p at position i with its quantifier; g groups were
\* opened before it, ic is re.IGNORECASE.
ParseAtom(p, i, g, ic) ==
    Quantified(p,
        IF CharAt(p, i) = "(" /\ CharAt(p, i + 1) = "?"
        THEN The({[re |-> IF Len(group.alts) = 1 THEN group.alts[1]
                          ELSE <<[k |-> "alt", alts |-> group.alts]>>,
                   pos |-> group.pos + 1, g |-> group.g]
                  : group \in {ParseAlt(p, i + 3, g, ic)}})
        ELSE IF CharAt(p, i) = "("
        THEN The({[re |-> <<[k |-> "open", g |-> g + 1]>>
                          \o (IF Len(group.alts) = 1 THEN group.alts[1]
                              ELSE <<[k |-> "alt", alts |-> group.alts]>>)
                          \o <<[k |-> "close", g |-> g + 1]>>,
                   pos |-> group.pos + 1, g |-> group.g]
                  : group \in {ParseAlt(p, i + 1, g + 1, ic)}})
        ELSE IF CharAt(p, i) = "["
        THEN The({[re |-> <<[k |-> "run", lo |-> 1, hi |-> 1, lazy |-> FALSE,
                             neg |-> CharAt(p, i + 1) = "^",
                             cs |-> IF ic THEN {Lower(ch) : ch \in set.cs} ELSE set.cs]>>,
                   pos |-> set.pos, g |-> g]
                  : set \in {ParseSet(p, IF CharAt(p, i + 1) = "^" THEN i + 2 ELSE i + 1)}})
        ELSE IF CharAt(p, i) = "\\" /\ CharAt(p, i + 1) = "b"
        THEN [re |-> <<[k |-> "b", cs |-> Escaped("w")]>>, pos |-> i + 2, g |-> g]
        ELSE IF CharAt(p, i) = "\\" /\ CharAt(p, i + 1) \in {"d", "s", "w"}
        THEN [re |-> <<[k |-> "run", lo |-> 1, hi |-> 1, lazy |-> FALSE, neg |-> FALSE,
                        cs |-> Escaped(CharAt(p, i + 1))]>>,
              pos |-> i + 2, g |-> g]
        ELSE IF CharAt(p, i) = "\\"
        THEN [re |-> <<[k |-> "lit", s |-> The(Escaped(CharAt(p, i + 1)))]>>,
              pos |-> i + 2, g |-> g]
        ELSE IF CharAt(p, i) = "."
        THEN [re |-> <<[k |-> "run", lo |-> 1, hi |-> 1, lazy |-> FALSE, neg |-> TRUE,
                        cs |-> {"\n"}]>>,
              pos |-> i + 1, g |-> g]
        ELSE IF CharAt(p, i) = "^" THEN [re |-> <<[k |-> "bol"]>>, pos |-> i + 1, g |-> g]
        ELSE IF CharAt(p, i) = "$" THEN [re |-> <<[k |-> "eol"]>>, pos |-> i + 1, g |-> g]
        ELSE [re |-> <<[k |-> "lit", s |-> IF ic THEN Lower(CharAt(p, i)) ELSE CharAt(p, i)]>>,
              pos |-> i + 1, g |-> g])

RECURSIVE ParseSeq(_, _, _, _)
\* The items of pattern p from position i up to "|", ")" or the end;
\* characters that follow each other make one lit, but for a last one that
\* a quantifier follows.
ParseSeq(p, i, g, ic) ==
    IF i > Len(p) \/ CharAt(p, i) \in {"|", ")"} THEN [re |-> <<>>, pos |-> i, g |-> g]
    ELSE The({
        The({[re |-> IF /\ Len(a.re) = 1 /\ a.re[1].k = "lit"
                        /\ r.re # <<>> /\ r.re[1].k = "lit"
                     THEN <<[k |-> "lit", s |-> a.re[1].s \o r.re[1].s]>> \o Tail(r.re)
                     ELSE a.re \o r.re,
              pos |-> r.pos, g |-> r.g]
             : r \in {ParseSeq(p, a.pos, a.g, ic)}})
        : a \in {The({
            IF n > 0
            THEN [re |-> <<[k |-> "lit", s |-> IF ic THEN Lower(SubSeq(p, i, i + n - 1))
                                               ELSE SubSeq(p, i, i + n - 1)]>>,
                  pos |-> i + n, g |-> g]
            ELSE ParseAtom(p, i, g, ic)
            : n \in {The({IF CharAt(p, stop) \in {"?", "*", "+", "{"}
                          THEN stop - 1 - i ELSE stop - i
                          : stop \in {Min(Len(p) + 1, The({
                                IF special = {} THEN Len(p) + 1
                                ELSE CHOOSE j \in special : \A j2 \in special : j <= j2
                                : special \in {{j \in i..Len(p) : CharAt(p, j) \in
                                    {"\\", "(", ")", "[", ".", "^", "$", "|", "?", "*", "+",
                                     "{"}}}}))}})}})}})

\* The alternatives of pattern p from position i up to ")" or the end.
ParseAlt(p, i, g, ic) ==
    The({IF CharAt(p, first.pos) # "|"
         THEN [alts |-> <<first.re>>, pos |-> first.pos, g |-> first.g]
         ELSE The({[alts |-> <<first.re>> \o others.alts, pos |-> others.pos, g |-> others.g]
                   : others \in {ParseAlt(p, first.pos + 1, first.g, ic)}})
         : first \in {ParseSeq(p, i, g, ic)}})

RECURSIVE FirstChars(_)
\* The characters that a match of the nodes re can begin with: "" when it
\* can be empty, "any" when it can begin with every character.
FirstChars(re) ==
    IF re = <<>> THEN {""}
    ELSE CASE re[1].k = "lit" -> {CharAt(re[1].s, 1)}
           [] re[1].k = "run" ->
                (IF re[1].neg THEN {"any"} ELSE re[1].cs)
                \cup (IF re[1].lo = 0 THEN FirstChars(Tail(re)) ELSE {})
           [] re[1].k = "rep" ->
                The({(inner \ {""})
                     \cup (IF re[1].lo = 0 \/ "" \in inner THEN FirstChars(Tail(re)) ELSE {})
                     : inner \in {FirstChars(re[1].re)}})
           [] re[1].k = "alt" ->
                UNION {FirstChars(re[1].alts[j] \o Tail(re)) : j \in 1..Len(re[1].alts)}
           [] OTHER -> FirstChars(Tail(re))

\* re.compile(pattern, flags): the whole match is group 0.
re_compile(pattern, flags) ==
    The({[ic |-> "IGNORECASE" \in flags,
          first |-> {ch : ch \in FirstChars(re)},
          re |-> <<[k |-> "open", g |-> 0]>> \o re \o <<[k |-> "close", g |-> 0]>>]
         : re \in {The({IF Len(alts) = 1 THEN alts[1] ELSE <<[k |-> "alt", alts |-> alts]>>
                        : alts \in {ParseAlt(pattern, 1, 0, "IGNORECASE" \in flags).alts}})}})

RECURSIVE MatchNodes(_, _, _)
\* The match of the nodes re at position i of s that Python's backtracking
\* finds first: a quantifier takes as much as it can (as little, when
\* lazy), an earlier alternative goes before a later one.
MatchNodes(re, s, i) ==
    IF re = <<>> THEN [end |-> i, from |-> <<>>, to |-> <<>>]
    ELSE CASE re[1].k = "lit" ->
                IF SubSeq(s, i, Min(Len(s), i + Len(re[1].s) - 1)) = re[1].s
                THEN MatchNodes(Tail(re), s, i + Len(re[1].s)) ELSE [end |-> 0]
           [] re[1].k = "run" ->
                \* n characters at most: as many (as few) of them as let the
                \* rest match
                IF re[1].lo > 0 /\ (CharAt(s, i) \in re[1].cs) = re[1].neg THEN [end |-> 0]
                ELSE The({
                    IF n < re[1].lo THEN [end |-> 0]
                    ELSE The({
                        IF take.end # 0 \/ n = re[1].lo THEN take
                        ELSE The({
                            IF fit = {} THEN [end |-> 0]
                            ELSE MatchNodes(Tail(re), s,
                                            i + (IF re[1].lazy
                                                 THEN CHOOSE k \in fit : \A k2 \in fit : k <= k2
                                                 ELSE CHOOSE k \in fit : \A k2 \in fit : k >= k2))
                            : fit \in {{k \in re[1].lo..n :
                                           MatchNodes(Tail(re), s, i + k).end # 0}}})
                        : take \in {MatchNodes(Tail(re), s,
                                               i + (IF re[1].lazy THEN re[1].lo ELSE n))}})
                    : n \in {The({
                        IF re[1].hi >= 0 /\ re[1].hi < most THEN re[1].hi ELSE most
                        : most \in {The({
                            IF stop = {} THEN Len(s) - i + 1
                            ELSE (CHOOSE j \in stop : \A j2 \in stop : j <= j2) - i
                            : stop \in {{j \in i..Len(s) :
                                           (CharAt(s, j) \in re[1].cs) = re[1].neg}}})}})}})
           [] re[1].k = "rep" ->
                LET more == MatchNodes(re[1].re
                                \o <<[re[1] EXCEPT !.lo = IF @ > 0 THEN @ - 1 ELSE 0,
                                                   !.hi = IF @ > 0 THEN @ - 1 ELSE @]>>
                                \o Tail(re), s, i)
                IN IF re[1].hi = 0 THEN MatchNodes(Tail(re), s, i)
                   ELSE IF re[1].lo > 0 THEN more
                   ELSE IF re[1].lazy
                   THEN The({IF after.end # 0 THEN after ELSE more
                             : after \in {MatchNodes(Tail(re), s, i)}})
                   ELSE The({IF again.end # 0 THEN again ELSE MatchNodes(Tail(re), s, i)
                             : again \in {more}})
           [] re[1].k = "alt" ->
                The({IF first.end # 0 \/ Len(re[1].alts) = 1 THEN first
                     ELSE MatchNodes(<<[re[1] EXCEPT !.alts = Tail(@)]>> \o Tail(re), s, i)
                     : first \in {MatchNodes(re[1].alts[1] \o Tail(re), s, i)}})
           [] re[1].k = "open" ->
                The({IF after.end = 0 \/ re[1].g \in DOMAIN after.from THEN after
                     ELSE [after EXCEPT !.from = (re[1].g :> i) @@ @]
                     : after \in {MatchNodes(Tail(re), s, i)}})
           [] re[1].k = "close" ->
                The({IF after.end = 0 \/ re[1].g \in DOMAIN after.to THEN after
                     ELSE [after EXCEPT !.to = (re[1].g :> i) @@ @]
                     : after \in {MatchNodes(Tail(re), s, i)}})
           [] re[1].k = "b" ->
                IF (CharAt(s, i - 1) \in re[1].cs) # (CharAt(s, i) \in re[1].cs)
                THEN MatchNodes(Tail(re), s, i) ELSE [end |-> 0]
           [] re[1].k = "bol" -> IF i = 1 THEN MatchNodes(Tail(re), s, i) ELSE [end |-> 0]
           [] re[1].k = "eol" ->
                IF i = Len(s) + 1 THEN MatchNodes(Tail(re), s, i) ELSE [end |-> 0]

\* pattern.match(string): the match at the start of the string.
re_match(pattern, string) ==
    MatchNodes(pattern.re, IF pattern.ic THEN Lower(string) ELSE string, 1)

\* pattern.search(string, pos): the leftmost match from position pos on.
re_search(pattern, string, pos) ==
    The({The({IF starts = {} THEN [end |-> 0]
              ELSE MatchNodes(pattern.re, s, CHOOSE i \in starts : \A j \in starts : i <= j)
              : starts \in {{i \in pos..(Len(s) + 1) :
                               /\ {"", "any", CharAt(s, i)} \cap pattern.first # {}
                               /\ MatchNodes(pattern.re, s, i).end # 0}}})
         : s \in {IF pattern.ic THEN Lower(string) ELSE string}})

RECURSIVE re_finditer(_, _, _)
\* pattern.finditer(string, pos): the matches from position pos on, none
\* overlapping another.
re_finditer(pattern, string, pos) ==
    The({IF m.end = 0 THEN <<>>
         ELSE <<m>> \o re_finditer(pattern, string,
                                   IF m.end > m.from[0] THEN m.end ELSE m.end + 1)
         : m \in {re_search(pattern, string, pos)}})

\* match.group(g), with None for a group that took no part in the match.
Group(m, string, g) ==
    IF g \in DOMAIN m.from THEN SubSeq(string, m.from[g], m.to[g] - 1) ELSE None

\* re.split(pattern, string) for a pattern without groups; str.split(sep)
\* is re.split on the pattern of the one character sep.
re_split(pattern, string) ==
    The({[k \in 1..(Len(ms) + 1) |->
             SubSeq(string, IF k = 1 THEN 1 ELSE ms[k - 1].end,
                    IF k > Len(ms) THEN Len(string) ELSE ms[k].from[0] - 1)]
         : ms \in {re_finditer(pattern, string, 1)}})

\* str.strip()
Strip(s) ==
    The({IF keep = {} THEN ""
         ELSE SubSeq(s, CHOOSE i \in keep : \A j \in keep : i <= j,
                     CHOOSE i \in keep : \A j \in keep : i >= j)
         : keep \in {{i \in 1..Len(s) : CharAt(s, i) \notin {" ", "\t", "\n", "\r", "\f"}}}})

\* sub in s
Contains(s, sub) ==
    \E i \in 1..(Len(s) - Len(sub) + 1) : SubSeq(s, i, i + Len(sub) - 1) = sub

\* str.isupper(): a cased character, and no lower-case one.
isupper(s) ==
    /\ \E i \in 1..Len(s) : Ord[CharAt(s, i)] \in 65..90
    /\ \A i \in 1..Len(s) : Ord[CharAt(s, i)] \notin 97..122

RECURSIVE StringsOf(_, _)
\* The texts made of exactly k of the parts.
StringsOf(parts, k) ==
    IF k = 0 THEN {""}
    ELSE {p \o t : p \in parts, t \in StringsOf(parts, k - 1)}

-----------------------------------------------------------------------------
(* ClauseExtractor                                                         *)

clause_patterns ==
    << re_compile("^(\\d+(?:\\.\\d+)*)\\s*[\\.:\\-]?\\s*(.+)", {"IGNORECASE"}),
       re_compile("^(?:Article|Section|Clause)\\s+(\\d+(?:\\.\\d+)*)[\\.:\\-]?\\s*(.+)",
                  {"IGNORECASE"}),
       re_compile("^([IVXivx]+)\\s*[\\.:\\-]\\s*(.+)", {"IGNORECASE"}),
       re_compile("^(?:\\()?([a-z])\\)?[\\.:\\-]?\\s*(.+)", {"IGNORECASE"}) >>

\* The patterns that give the nesting level of a clause number: 3, 2, 2.
level_patterns ==
    << re_compile("\\d+\\.\\d+\\.\\d+", {}),
       re_compile("\\d+\\.\\d+", {}),
       re_compile("[a-z]", {"IGNORECASE"}) >>

clause_type_indicators ==
    << [type |-> "definitions",
        indicators |-> <<"definition", "definitions", "interpretation", "meanings">>],
       [type |-> "obligations",
        indicators |-> <<"shall", "must", "agrees to", "undertakes to", "is required to",
                         "will provide">>],
       [type |-> "rights",
        indicators |-> <<"may", "is entitled to", "has the right to", "reserves the right">>],
       [type |-> "prohibitions",
        indicators |-> <<"shall not", "must not", "may not", "is prohibited from", "cannot">>],
       [type |-> "payment_terms",
        indicators |-> <<"payment", "fee", "compensation", "invoice", "remuneration",
                         "salary">>],
       [type |-> "termination",
        indicators |-> <<"termination", "terminate", "cancellation", "end of agreement">>],
       [type |-> "indemnity",
        indicators |-> <<"indemnify", "indemnification", "hold harmless", "indemnity">>],
       [type |-> "confidentiality",
        indicators |-> <<"confidential", "non-disclosure", "proprietary", "trade secret">>],
       [type |-> "intellectual_property",
        indicators |-> <<"intellectual property", "ip rights", "copyright", "patent",
                         "trademark">>],
       [type |-> "dispute_resolution",
        indicators |-> <<"dispute", "arbitration", "mediation", "litigation",
                         "jurisdiction">>],
       [type |-> "governing_law",
        indicators |-> <<"governing law", "applicable law", "laws of", "jurisdiction">>],
       [type |-> "force_majeure",
        indicators |-> <<"force majeure", "act of god", "unforeseeable", "beyond control">>],
       [type |-> "amendment",
        indicators |-> <<"amendment", "modification", "variation",
                         "change to this agreement">>],
       [type |-> "notice",
        indicators |-> <<"notice", "notification", "written notice", "days notice">>],
       [type |-> "assignment",
        indicators |-> <<"assignment", "assign", "transfer rights", "novation">>],
       [type |-> "entire_agreement",
        indicators |-> <<"entire agreement", "whole agreement", "supersedes">>],
       [type |-> "severability",
        indicators |-> <<"severability", "severable", "invalid provision">>],
       [type |-> "warranty",
        indicators |-> <<"warranty", "warranties", "represents and warrants",
                         "representation">>] >>

\* The first pattern that matches the line gives the clause number, the
\* heading and the level; a line in capitals is a heading without a
\* number; any other line gives None.
match_clause_pattern(line) ==
    The({IF hits # {}
         THEN The({[number |-> Group(match, line, 1),
                    heading |-> Strip(Group(match, line, 2)),
                    level |-> IF re_match(level_patterns[1], Group(match, line, 1)).end # 0
                              THEN 3
                              ELSE IF re_match(level_patterns[2], Group(match, line, 1)).end # 0
                              THEN 2
                              ELSE IF re_match(level_patterns[3], Group(match, line, 1)).end # 0
                              THEN 2
                              ELSE 1]
                   : match \in {re_match(clause_patterns[CHOOSE p \in hits :
                                                            \A q \in hits : p <= q], line)}})
         ELSE IF isupper(line) /\ Len(line) > 3 /\ Len(line) < 100
         THEN [number |-> "", heading |-> line, level |-> 1]
         ELSE NoResult
         : hits \in {{p \in 1..Len(clause_patterns) :
                        re_match(clause_patterns[p], line).end # 0}}})

\* The type with the most indicators in the text, the first of them on a
\* tie; "general" when no indicator is in it.
identify_clause_type(text) ==
    The({IF \A t \in 1..Len(matches) : matches[t] = 0 THEN "general"
         ELSE clause_type_indicators[CHOOSE t \in 1..Len(matches) :
                  /\ \A u \in 1..Len(matches) : matches[u] <= matches[t]
                  /\ \A u \in 1..(t - 1) : matches[u] < matches[t]].type
         : matches \in {The({
             [t \in 1..Len(clause_type_indicators) |->
                 Cardinality({k \in 1..Len(clause_type_indicators[t].indicators) :
                     Contains(text_lower, clause_type_indicators[t].indicators[k])})]
             : text_lower \in {Lower(text)}})}})

\* extract_by_paragraphs with a clause for every paragraph that is not empty.
extract_by_paragraphsAnyLength(text) ==
    LET LongEnough(clause) == Len(clause.text) > 0
    IN The({SelectSeq([i \in 1..Len(paragraphs) |->
                          [clause_number |-> ToString(i),
                           heading |-> "",
                           text |-> paragraphs[i],
                           start_line |-> 0,
                           level |-> 1,
                           clause_type |-> identify_clause_type(paragraphs[i])]],
                      LongEnough)
            : paragraphs \in {The({[i \in 1..Len(split) |-> Strip(split[i])]
                                   : split \in {re_split(re_compile("\\n\\s*\\n", {}),
                                                         text)}})}})

\* Fallback: one clause for each paragraph of more than 50 characters.
extract_by_paragraphs(text) ==
    LET LongEnough(clause) == Len(clause.text) > 50
    IN The({SelectSeq([i \in 1..Len(paragraphs) |->
                          [clause_number |-> ToString(i),
                           heading |-> "",
                           text |-> paragraphs[i],
                           start_line |-> 0,
                           level |-> 1,
                           clause_type |-> identify_clause_type(paragraphs[i])]],
                      LongEnough)
            : paragraphs \in {The({[i \in 1..Len(split) |-> Strip(split[i])]
                                   : split \in {re_split(re_compile("\\n\\s*\\n", {}),
                                                         text)}})}})

RECURSIVE ExtractLines(_, _, _)
\* The loop of extract_clauses from line i on, with the clause that is
\* open: a line that matches closes it and opens the next one, any other
\* line is added to it.
ExtractLines(lines, i, current_clause) ==
    LET closed == IF current_clause = NoResult THEN <<>>
                  ELSE <<[clause_number |-> current_clause.clause_number,
                          heading |-> current_clause.heading,
                          text |-> Strip(current_clause.text),
                          start_line |-> current_clause.start_line,
                          level |-> current_clause.level,
                          clause_type |-> identify_clause_type(Strip(current_clause.text))]>>
    IN IF i > Len(lines) THEN closed
       ELSE IF Strip(lines[i]) = "" THEN ExtractLines(lines, i + 1, current_clause)
       ELSE The({
           IF clause_match # NoResult
           THEN closed \o ExtractLines(lines, i + 1,
                             [clause_number |-> clause_match.number,
                              heading |-> clause_match.heading,
                              text |-> Strip(lines[i]),
                              start_line |-> i,
                              level |-> clause_match.level])
           ELSE IF current_clause # NoResult
           THEN ExtractLines(lines, i + 1,
                    [current_clause EXCEPT !.text = @ \o "\n" \o Strip(lines[i])])
           ELSE ExtractLines(lines, i + 1, current_clause)
           : clause_match \in {match_clause_pattern(Strip(lines[i]))}})

extract_clauses(text) ==
    The({IF found = <<>> THEN extract_by_paragraphs(text) ELSE found
         : found \in {ExtractLines(re_split(re_compile("\\n", {}), text), 1, NoResult)}})

\* The lines that the texts given to the clause extractor are made of:
\* headings, prose, lines that no pattern matches (a short one and one of
\* more than 50 characters), blank lines.
ClauseLines ==
    { "1. Rent\n",
      "the tenant shall pay\n",
      "- the tenant pays the rent on the first day of each month\n",
      "- short\n",
      "TERMS\n",
      "!!!",
      " \n",
      "\n" }

\* The most lines in one text.
MaxLines == 2

InitClauses ==
    /\ contract_text \in UNION {StringsOf(ClauseLines, n) : n \in 0..MaxLines}
    /\ extracted_clauses = NoResult
    /\ Idle("clauses")

\* clauses = clause_extractor.extract_clauses(text)
ExtractClauses ==
    /\ extracted_clauses = NoResult
    /\ extracted_clauses' = [value |-> extract_clauses(contract_text)]
    /\ UNCHANGED contract_text
    /\ Frame("clauses")

SpecClauses == InitClauses /\ [][ExtractClauses]_vars

-----------------------------------------------------------------------------
(* Claims about the clause extractor                                       *)

\* C3 (amended): extract_clauses returns at least one clause exactly when
\* some line of the text, stripped, matches a heading pattern or is a
\* heading in capitals, or some paragraph of the text, stripped, has more
\* than 50 characters; for every other text, such as a short text without
\* a heading or a text of white space, it returns the empty list.
C3_ClauseIffHeadingOrLongParagraph ==
    extracted_clauses # NoResult =>
        LET lines == re_split(re_compile("\\n", {}), contract_text)
            paragraphs == re_split(re_compile("\\n\\s*\\n", {}), contract_text)
        IN Len(extracted_clauses.value) >= 1 <=>
              \/ \E k \in 1..Len(lines) :
                    Strip(lines[k]) # "" /\ match_clause_pattern(Strip(lines[k])) # NoResult
              \/ \E k \in 1..Len(paragraphs) : Len(Strip(paragraphs[k])) > 50

\* C3: a text without a heading whose one paragraph has more than 50
\* characters gives the one clause of the paragraph fallback.
C3_Witness ==
    /\ extracted_clauses # NoResult
    /\ contract_text = "- the tenant pays the rent on the first day of each month\n"
    /\ Len(extracted_clauses.value) = 1
    /\ extracted_clauses.value[1].start_line = 0

\* C3 as stated: at least one clause for every non-empty text.
C3_ClauseForEveryNonEmptyText ==
    (extracted_clauses # NoResult /\ contract_text # "") =>
        Len(extracted_clauses.value) >= 1

\* C21: a non-blank line starts a clause only if it is a numeric heading,
\* an Article/Section/Clause heading, a roman numeral with a delimiter, a
\* bracketed or lettered sub-item such as "a)" or "(b)", or a short line in
\* capitals; any other non-blank line, such as a sentence of prose after a
\* heading, is added to the open clause and is no clause of its own.
C21_ProseLineStartsNoClause ==
    extracted_clauses # NoResult =>
        LET lines == re_split(re_compile("\\n", {}), contract_text)
            sub_item == re_compile("^\\(?[a-z][\\)\\.:\\-]", {"IGNORECASE"})
            Heading(line) ==
                \/ \E p \in 1..3 : re_match(clause_patterns[p], line).end # 0
                \/ re_match(sub_item, line).end # 0
                \/ isupper(line) /\ Len(line) > 3 /\ Len(line) < 100
        IN \A k \in 1..Len(lines) :
              (Strip(lines[k]) # "" /\ ~Heading(Strip(lines[k])))
                  => \A c \in 1..Len(extracted_clauses.value) :
                         extracted_clauses.value[c].start_line # k

-----------------------------------------------------------------------------
(* ContractClassifier                                                      *)

\* The keywords of the contract types, in the order of the dictionary, and
\* their weights in tenths.
contract_patterns ==
    << [type |-> "employment_agreement",
        keywords |-> <<"employee", "employer", "employment", "salary", "wages",
                       "working hours", "probation", "resignation",
                       "termination of employment", "job title", "job description",
                       "work duties", "leave policy", "gratuity", "provident fund", "epf",
                       "esi", "notice period", "full-time", "part-time", "designation",
                       "reporting manager">>,
        weight |-> 10],
       [type |-> "vendor_contract",
        keywords |-> <<"vendor", "supplier", "purchase order", "supply", "goods",
                       "delivery", "shipment", "procurement", "inventory", "wholesale",
                       "pricing", "unit price", "bulk order", "minimum order",
                       "product specifications", "quality standards", "returns policy",
                       "invoice", "payment terms", "net 30", "net 60">>,
        weight |-> 10],
       [type |-> "lease_agreement",
        keywords |-> <<"lease", "lessor", "lessee", "tenant", "landlord", "rent",
                       "monthly rent", "security deposit", "premises", "property",
                       "real estate", "occupation", "subletting", "maintenance",
                       "utilities", "eviction", "renewal of lease", "commercial lease",
                       "residential", "lock-in period">>,
        weight |-> 10],
       [type |-> "partnership_deed",
        keywords |-> <<"partner", "partnership", "partnership deed", "profit sharing",
                       "loss sharing", "capital contribution", "partnership firm",
                       "managing partner", "sleeping partner", "dissolution",
                       "partnership act", "goodwill", "drawings", "retirement of partner">>,
        weight |-> 10],
       [type |-> "service_contract",
        keywords |-> <<"service provider", "client", "services", "scope of work",
                       "deliverables", "milestones", "service level", "sla", "consulting",
                       "professional services", "project timeline", "acceptance criteria",
                       "change request", "statement of work", "hourly rate", "fixed fee",
                       "retainer">>,
        weight |-> 10],
       [type |-> "nda",
        keywords |-> <<"non-disclosure", "nda", "confidential information",
                       "confidentiality agreement", "proprietary information",
                       "trade secrets", "disclosing party", "receiving party",
                       "non-circumvention", "mutual nda", "unilateral nda">>,
        weight |-> 12] >>

title_patterns ==
    << re_compile("(employment|job|appointment|offer)\\s*(agreement|contract|letter)",
                  {"IGNORECASE"}),
       re_compile("(vendor|supplier|supply|purchase)\\s*(agreement|contract|order)",
                  {"IGNORECASE"}),
       re_compile("(lease|rental|tenancy)\\s*(agreement|deed|contract)", {"IGNORECASE"}),
       re_compile("partnership\\s*(deed|agreement)", {"IGNORECASE"}),
       re_compile("(service|consulting|professional)\\s*(agreement|contract)",
                  {"IGNORECASE"}),
       re_compile("(non-disclosure|nda|confidentiality)\\s*(agreement|contract)?",
                  {"IGNORECASE"}) >>

RECURSIVE re_escape(_)
\* re.escape(s): a backslash before each character that is not a letter, a
\* digit or "_" (of the characters of the keywords: the blank and "-").
re_escape(s) ==
    IF s = "" THEN ""
    ELSE (IF CharAt(s, 1) \in Escaped("w") THEN CharAt(s, 1) ELSE "\\" \o CharAt(s, 1))
         \o re_escape(Tail(s))

\* r'\b' + re.escape(keyword) + r'\b' of each keyword of each type.
keyword_patterns ==
    [t \in 1..Len(contract_patterns) |->
        [k \in 1..Len(contract_patterns[t].keywords) |->
            re_compile("\\b" \o re_escape(contract_patterns[t].keywords[k]) \o "\\b", {})]]

\* The types whose title pattern is found in the title section.
TitleHits(title_section) ==
    {t \in 1..Len(title_patterns) : re_search(title_patterns[t], title_section, 1).end # 0}

\* The title loop with the last matching type kept instead of the first.
TitleMatchLast(title_section) ==
    The({IF hits = {} THEN None
         ELSE contract_patterns[CHOOSE t \in hits : \A u \in hits : t >= u].type
         : hits \in {TitleHits(title_section)}})

\* title_match of classify: the first type, in the order of title_patterns,
\* whose pattern is found in the title section (the loop ends there), or
\* None.
TitleMatch(title_section) ==
    The({IF hits = {} THEN None
         ELSE contract_patterns[CHOOSE t \in hits : \A u \in hits : t <= u].type
         : hits \in {TitleHits(title_section)}})

\* The scores of the types for the lower-cased text: the number of keyword
\* occurrences times the weight, doubled for the type of the title.
ClassifyScores(text_lower, title_match) ==
    [t \in 1..Len(contract_patterns) |->
        The({LET Matched(k) == counts[k] > 0
             IN [type |-> contract_patterns[t].type,
                 score |-> SumSeq(counts) * contract_patterns[t].weight
                           * (IF contract_patterns[t].type = title_match THEN 2 ELSE 1),
                 matched_keywords |->
                     The({[j \in 1..Len(found) |-> contract_patterns[t].keywords[found[j]]]
                          : found \in {SelectSeq([k \in 1..Len(counts) |-> k], Matched)}}),
                 keyword_count |-> Cardinality({k \in 1..Len(counts) : counts[k] > 0})]
             : counts \in {[k \in 1..Len(contract_patterns[t].keywords) |->
                              Len(re_finditer(keyword_patterns[t][k], text_lower, 1))]}})]

\* classify with "unknown" also for a highest score of exactly 3.
classifyAtMostThree(text) ==
    The({
        The({
            The({IF scores[first].score <= 30
                 THEN {[primary_type |-> "unknown", confidence |-> 0,
                        all_scores |-> scores, title_match |-> title_match,
                        top_keywords |-> <<>>]}
                 ELSE {[primary_type |-> scores[first].type, confidence |-> c,
                        all_scores |-> scores, title_match |-> title_match,
                        top_keywords |-> SubSeq(scores[first].matched_keywords, 1,
                                            Min(10, Len(scores[first].matched_keywords)))]
                       : c \in RoundAny(100 * scores[first].score,
                                        SumSeq([t \in 1..Len(scores) |-> scores[t].score]))}
                 : first \in {CHOOSE t \in 1..Len(scores) :
                                 /\ \A u \in 1..Len(scores) : scores[u].score <= scores[t].score
                                 /\ \A u \in 1..(t - 1) : scores[u].score < scores[t].score}})
            : scores \in {ClassifyScores(text_lower, title_match)}})
        : text_lower \in {Lower(text)},
          title_match \in {TitleMatch(SubSeq(Lower(text), 1, Min(500, Len(text))))}})

\* The results that classify(text) can return: the confidence round(x, 2), in
\* hundredths, is either neighbour when x is half way between two of them.
classify(text) ==
    The({
        The({
            The({IF scores[first].score < 30
                 THEN {[primary_type |-> "unknown", confidence |-> 0,
                        all_scores |-> scores, title_match |-> title_match,
                        top_keywords |-> <<>>]}
                 ELSE {[primary_type |-> scores[first].type, confidence |-> c,
                        all_scores |-> scores, title_match |-> title_match,
                        top_keywords |-> SubSeq(scores[first].matched_keywords, 1,
                                            Min(10, Len(scores[first].matched_keywords)))]
                       : c \in RoundAny(100 * scores[first].score,
                                        SumSeq([t \in 1..Len(scores) |-> scores[t].score]))}
                 : first \in {CHOOSE t \in 1..Len(scores) :
                                 /\ \A u \in 1..Len(scores) : scores[u].score <= scores[t].score
                                 /\ \A u \in 1..(t - 1) : scores[u].score < scores[t].score}})
            : scores \in {ClassifyScores(text_lower, title_match)}})
        : text_lower \in {Lower(text)},
          title_match \in {TitleMatch(SubSeq(Lower(text), 1, Min(500, Len(text))))}})

\* The pieces that the texts given to the classifier are made of: three
\* keywords of a type, one keyword of the type of weight 1.2, titles with
\* and without a keyword in them, a keyword alone, white space.
ClassifyParts ==
    { "employee salary wages ",
      "vendor invoice goods ",
      "nda ",
      "Lease Agreement ",
      "rent ",
      "job letter ",
      " " }

\* The most pieces in one text.
MaxClassifyParts == 3

InitClassify ==
    /\ contract_text \in UNION {StringsOf(ClassifyParts, n) : n \in 0..MaxClassifyParts}
    /\ classification = NoResult
    /\ Idle("classify")

\* results["contract_type"] = classifier.classify(text)
Classify ==
    /\ classification = NoResult
    /\ classification' \in classify(contract_text)
    /\ UNCHANGED contract_text
    /\ Frame("classify")

SpecClassify == InitClassify /\ [][Classify]_vars

\* C4 (amended): classify returns primary_type "unknown" with confidence 0.0
\* exactly when the highest weighted score is below 3; otherwise the primary
\* type is the first declared type of maximal score and the confidence is
\* that score divided by the sum of the six scores, rounded to two decimals,
\* which lies in [1/6, 1].  Scores are in tenths, the confidence in
\* hundredths.
C4_UnknownBelowThreeElseRoundedShare ==
    classification # NoResult =>
        LET scores == [t \in 1..Len(classification.all_scores) |->
                          classification.all_scores[t].score]
        IN /\ Len(scores) = 6
           /\ classification.primary_type = "unknown" <=> MaxSeq(scores) < 30
           /\ classification.primary_type = "unknown" => classification.confidence = 0
           /\ classification.primary_type # "unknown" =>
                 \E t \in 1..Len(scores) :
                    /\ classification.all_scores[t].type = classification.primary_type
                    /\ scores[t] = MaxSeq(scores)
                    /\ \A u \in 1..(t - 1) : scores[u] < scores[t]
                    /\ 2 * (classification.confidence * SumSeq(scores) - 100 * scores[t])
                          <= SumSeq(scores)
                    /\ 2 * (100 * scores[t] - classification.confidence * SumSeq(scores))
                          <= SumSeq(scores)
                    /\ 6 * classification.confidence >= 100
                    /\ classification.confidence <= 100

\* C4 witness: three employment keywords and the NDA keyword of the title
\* give employment_agreement with 3 / 5.4, reported as 0.56.
C4_Witness ==
    /\ classification # NoResult
    /\ contract_text = "employee salary wages nda "
    /\ classification.primary_type = "employment_agreement"
    /\ classification.all_scores[1].score = 30
    /\ classification.all_scores[6].score = 24
    /\ classification.confidence = 56

\* C4 as stated: the confidence is the score of the primary type divided by
\* the sum of the six scores.
C4_ConfidenceIsExactShare ==
    classification # NoResult =>
        LET scores == [t \in 1..Len(classification.all_scores) |->
                          classification.all_scores[t].score]
        IN /\ classification.primary_type = "unknown" <=> MaxSeq(scores) < 30
           /\ classification.primary_type = "unknown" => classification.confidence = 0
           /\ classification.primary_type # "unknown" =>
                 \E t \in 1..Len(scores) :
                    /\ classification.all_scores[t].type = classification.primary_type
                    /\ scores[t] = MaxSeq(scores)
                    /\ \A u \in 1..(t - 1) : scores[u] < scores[t]
                    /\ classification.confidence * SumSeq(scores) = 100 * scores[t]

\* C20 (amended): the first type, in the declared order, whose title regex
\* matches within the first 500 characters has its keyword score doubled and
\* is reported as title_match; every other type keeps its keyword score,
\* also one whose title regex matches as well.
C20_FirstTitleTypeDoubled ==
    classification # NoResult =>
        LET keyword_scores == ClassifyScores(Lower(contract_text), None)
            title_types == TitleHits(SubSeq(Lower(contract_text), 1,
                                            Min(500, Len(contract_text))))
        IN \A t \in 1..Len(classification.all_scores) :
              IF t \in title_types /\ \A u \in title_types : t <= u
              THEN /\ classification.all_scores[t].score = 2 * keyword_scores[t].score
                   /\ classification.title_match = classification.all_scores[t].type
              ELSE /\ classification.all_scores[t].score = keyword_scores[t].score
                   /\ classification.title_match # classification.all_scores[t].type

\* C20 witness: the title regexes of employment_agreement ("job letter") and
\* of nda ("nda") both match; three employment keywords score 6.0, the NDA
\* keyword stays at 1.2.
C20_Witness ==
    /\ classification # NoResult
    /\ contract_text = "job letter employee salary wages nda "
    /\ TitleHits(contract_text) = {1, 6}
    /\ classification.all_scores[1].score = 60
    /\ classification.all_scores[6].score = 12

\* C20 as stated: every type whose title regex matches within the first 500
\* characters has its keyword score doubled.
C20_EveryTitleTypeDoubled ==
    classification # NoResult =>
        LET keyword_scores == ClassifyScores(Lower(contract_text), None)
        IN \A t \in TitleHits(SubSeq(Lower(contract_text), 1, Min(500, Len(contract_text)))) :
              classification.all_scores[t].score = 2 * keyword_scores[t].score

-----------------------------------------------------------------------------
(* ComplianceChecker                                                       *)
(* A check list is a sequence of entries in the order of the dictionary;   *)
(* an entry without the key "patterns" has has_patterns FALSE.  A finding  *)
(* without the key "found" is a record without that field.  The rupee sign *)
(* of one pattern and the warning sign of one status are left out: the     *)
(* texts are ASCII.                                                        *)

basic_requirements ==
    << [name |-> "parties", description |-> "Contract must clearly identify all parties",
        has_patterns |-> TRUE,
        patterns |-> << re_compile("(?:between|party|parties)", {"IGNORECASE"}),
                        re_compile("(?:first\\s+party|second\\s+party)", {"IGNORECASE"}),
                        re_compile("(?:company|employer|employee|vendor|client)",
                                   {"IGNORECASE"}) >>],
       [name |-> "consideration", description |-> "Contract must have lawful consideration",
        has_patterns |-> TRUE,
        patterns |-> << re_compile("(?:consideration|payment|compensation|fee|salary|price)",
                                   {"IGNORECASE"}),
                        re_compile("(?:Rs\\.?|INR)\\s*[\\d,]+", {"IGNORECASE"}) >>],
       [name |-> "lawful_object", description |-> "Contract object must be lawful",
        has_patterns |-> FALSE, patterns |-> <<>>],
       [name |-> "free_consent", description |-> "Contract requires free consent of parties",
        has_patterns |-> FALSE, patterns |-> <<>>] >>

employment_compliance ==
    << [name |-> "minimum_wage", description |-> "Must comply with Minimum Wages Act",
        has_patterns |-> FALSE, patterns |-> <<>>],
       [name |-> "working_hours",
        description |-> "Maximum 48 hours/week as per Factories Act",
        has_patterns |-> TRUE,
        patterns |-> << re_compile("(\\d+)\\s*hours?\\s*(?:per\\s+)?(?:week|day)",
                                   {"IGNORECASE"}) >>],
       [name |-> "leave_policy", description |-> "Must provide statutory leave entitlements",
        has_patterns |-> TRUE,
        patterns |-> << re_compile("(?:annual|earned|casual|sick)\\s+leave", {"IGNORECASE"}),
                        re_compile("(\\d+)\\s*days?\\s*(?:of\\s+)?leave", {"IGNORECASE"}) >>],
       [name |-> "pf_esi", description |-> "EPF/ESI deductions may be applicable",
        has_patterns |-> TRUE,
        patterns |-> << re_compile("(?:provident\\s+fund|PF|EPF|ESI)", {"IGNORECASE"}),
                        re_compile("(?:employer\\s+contribution|employee\\s+contribution)",
                                   {"IGNORECASE"}) >>],
       [name |-> "gratuity", description |-> "Gratuity applicable for 5+ years service",
        has_patterns |-> TRUE,
        patterns |-> << re_compile("gratuity", {"IGNORECASE"}) >>],
       [name |-> "notice_period", description |-> "Notice requirements for termination",
        has_patterns |-> TRUE,
        patterns |-> << re_compile("notice\\s+period\\s+of\\s+(\\d+)\\s*(?:days?|months?)",
                                   {"IGNORECASE"}) >>] >>

lease_compliance ==
    << [name |-> "stamp_duty",
        description |-> "Lease agreements require stamp duty payment",
        patterns |-> << re_compile("stamp\\s+duty", {"IGNORECASE"}),
                        re_compile("registration", {"IGNORECASE"}) >>],
       [name |-> "registration", description |-> "Leases > 12 months must be registered",
        patterns |-> << re_compile("register(?:ed|ation)", {"IGNORECASE"}),
                        re_compile("sub-?registrar", {"IGNORECASE"}) >>],
       [name |-> "rent_control", description |-> "May be subject to state Rent Control Act",
        patterns |-> << re_compile("rent\\s+control\\s+act", {"IGNORECASE"}),
                        re_compile("standard\\s+rent", {"IGNORECASE"}) >>] >>

general_compliance ==
    << [name |-> "stamp_paper",
        description |-> "Contract may require execution on stamp paper",
        patterns |-> << re_compile("stamp\\s+paper", {"IGNORECASE"}),
                        re_compile("stamp\\s+duty", {"IGNORECASE"}),
                        re_compile("e-?stamp", {"IGNORECASE"}) >>],
       [name |-> "witness", description |-> "Witnesses may be required for validity",
        patterns |-> << re_compile("witness(?:es)?", {"IGNORECASE"}),
                        re_compile("attestation", {"IGNORECASE"}),
                        re_compile("attest(?:ed)?", {"IGNORECASE"}) >>],
       [name |-> "jurisdiction",
        description |-> "Exclusive jurisdiction clauses should be reasonable",
        patterns |-> << re_compile(
            "(?:exclusive\\s+)?jurisdiction\\s+(?:of\\s+)?(?:courts?\\s+(?:at|of|in))",
            {"IGNORECASE"}) >>],
       [name |-> "arbitration",
        description |-> "Must comply with Arbitration & Conciliation Act",
        patterns |-> << re_compile("arbitration", {"IGNORECASE"}),
                        re_compile("Arbitration\\s+and\\s+Conciliation\\s+Act",
                                   {"IGNORECASE"}) >>] >>

\* re.findall of each pattern in turn, the lists joined: of a match, group 1
\* of a pattern that has a group, else the whole match.
re_findall(patterns, string) ==
    Flatten([p \in 1..Len(patterns) |->
        The({[j \in 1..Len(ms) |-> Group(ms[j], string, IF 1 \in DOMAIN ms[j].from THEN 1 ELSE 0)]
             : ms \in {re_finditer(patterns[p], string, 1)}})])

check_basic_requirements(text) ==
    [r \in 1..Len(basic_requirements) |->
        IF basic_requirements[r].has_patterns
        THEN The({[name |-> basic_requirements[r].name,
                   description |-> basic_requirements[r].description,
                   found |-> found,
                   status |-> IF found THEN "[OK] Found" ELSE "[!] Not clearly specified"]
                  : found \in {\E p \in 1..Len(basic_requirements[r].patterns) :
                                  re_search(basic_requirements[r].patterns[p], text, 1).end # 0}})
        ELSE [name |-> basic_requirements[r].name,
              description |-> basic_requirements[r].description,
              status |-> "[!] Manual review required"]]

check_employment(text) ==
    [r \in 1..Len(employment_compliance) |->
        IF employment_compliance[r].has_patterns
        THEN The({[name |-> employment_compliance[r].name,
                   description |-> employment_compliance[r].description,
                   found |-> Len(matches) > 0,
                   matches |-> SubSeq(matches, 1, Min(5, Len(matches))),
                   status |-> IF Len(matches) > 0 THEN "[OK] Addressed" ELSE "[!] Not specified"]
                  : matches \in {re_findall(employment_compliance[r].patterns, text)}})
        ELSE [name |-> employment_compliance[r].name,
              description |-> employment_compliance[r].description,
              status |-> "[!] Manual review required"]]

RECURSIVE int(_)
\* int(s) of a string of digits
int(s) == IF s = "" THEN 0 ELSE 10 * int(SubSeq(s, 1, Len(s) - 1)) + Ord[CharAt(s, Len(s))] - 48

check_lease(text) ==
    [r \in 1..Len(lease_compliance) |->
        The({[name |-> lease_compliance[r].name,
              description |-> lease_compliance[r].description,
              found |-> Len(matches) > 0,
              status |-> IF Len(matches) > 0 THEN "[OK] Mentioned" ELSE "[!] Not addressed"]
             : matches \in {re_findall(lease_compliance[r].patterns, text)}})]
    \o The({IF /\ duration_match.end # 0
               /\ \/ Contains(Lower(Group(duration_match, text, 0)), "year")
                  \/ /\ int(Group(duration_match, text, 1)) > 12
                     /\ Contains(Lower(Group(duration_match, text, 0)), "month")
            THEN <<[name |-> "registration_required",
                    description |->
                        "Lease exceeds 12 months - Registration mandatory under Registration Act",
                    status |-> "Registration required",
                    action |-> "Register with Sub-Registrar office"]>>
            ELSE <<>>
            : duration_match \in {re_search(re_compile("(\\d+)\\s*(?:months?|years?)",
                                                       {"IGNORECASE"}), text, 1)}})

check_general(text) ==
    [r \in 1..Len(general_compliance) |->
        The({[name |-> general_compliance[r].name,
              description |-> general_compliance[r].description,
              found |-> Len(matches) > 0,
              status |-> IF Len(matches) > 0 THEN "[OK] Addressed"
                         ELSE "[i] Not explicitly mentioned"]
             : matches \in {re_findall(general_compliance[r].patterns, text)}})]

\* The issues, warnings and recommendations of the results, in the order
\* the code appends them.
compile_findings(results) ==
    LET NotFound(data) == ~Get(data, "found", TRUE)
        BasicIssue(data) == NotFound(data) /\ data.name # "lawful_object"
        LeaseRequired(data) == data.name = "registration_required"
        LeaseWarning(data) == data.name # "registration_required" /\ NotFound(data)
        Found(name) == \E k \in 1..Len(results.general_compliance) :
                          /\ results.general_compliance[k].name = name
                          /\ results.general_compliance[k].found
        basic == SelectSeq(results.basic_requirements, BasicIssue)
        employment == SelectSeq(Get(results, "employment_compliance", <<>>), NotFound)
        lease == Get(results, "lease_compliance", <<>>)
        required == SelectSeq(lease, LeaseRequired)
        unaddressed == SelectSeq(lease, LeaseWarning)
    IN [issues |-> [k \in 1..Len(basic) |->
                       basic[k].description \o " - not clearly specified"]
                   \o [k \in 1..Len(required) |-> required[k].action],
        warnings |-> [k \in 1..Len(employment) |->
                         employment[k].description \o " - should be addressed"]
                     \o [k \in 1..Len(unaddressed) |-> unaddressed[k].description],
        recommendations |->
            (IF Found("stamp_paper") THEN <<>>
             ELSE <<"Consider executing the contract on appropriate stamp paper as per applicable state laws">>)
            \o (IF Found("witness") THEN <<>>
                ELSE <<"Consider having the contract attested by witnesses for stronger enforceability">>)]

\* The values that _calculate_score(results) can return, in tenths: the
\* share of the passed checks among the basic and the type-specific ones.
calculate_score(results) ==
    LET BasicPassed(data) ==
            Get(data, "found", FALSE) \/ Contains(Get(data, "status", ""), "Manual")
        Passed(data) == Get(data, "found", FALSE)
        specific == Get(results, "employment_compliance", <<>>)
                    \o Get(results, "lease_compliance", <<>>)
    IN IF Len(results.basic_requirements) + Len(specific) = 0 THEN {1000}
       ELSE RoundAny(1000 * (Len(SelectSeq(results.basic_requirements, BasicPassed))
                             + Len(SelectSeq(specific, Passed))),
                     Len(results.basic_requirements) + Len(specific))

\* The results that check_compliance(text, contract_type) can return.
check_compliance(text, contract_type) ==
    The({{results @@ [compliance_score |-> score] : score \in calculate_score(results)}
         : results \in {The({compile_findings(checks) @@ checks
             : checks \in {
                 [basic_requirements |-> check_basic_requirements(text),
                  general_compliance |-> check_general(text)]
                 @@ (IF contract_type = "employment_agreement"
                     THEN [employment_compliance |-> check_employment(text)]
                     ELSE IF contract_type = "lease_agreement"
                     THEN [lease_compliance |-> check_lease(text)]
                     ELSE <<>>)}})}})

\* The pieces that the texts given to the compliance checker are made of:
\* the basic requirements, the general ones, one of them alone, the
\* employment check list, the lease check list after a long and after a
\* short term.
ComplianceParts ==
    { "between parties payment ",
      "stamp paper witness jurisdiction of courts at arbitration ",
      "witness ",
      "40 hours per week annual leave epf gratuity notice period of 30 days ",
      "24 months stamp duty registered rent control act ",
      "6 months stamp duty registered rent control act " }

\* The most pieces in one text.
MaxComplianceParts == 3

\* The contract types that analyze_contract can pass on from the classifier.
ContractTypes ==
    {"unknown", "general"} \cup {contract_patterns[t].type : t \in 1..Len(contract_patterns)}

InitCompliance ==
    /\ contract_text \in UNION {StringsOf(ComplianceParts, n) : n \in 0..MaxComplianceParts}
    /\ compliance_result = NoResult
    /\ Idle("compliance")

\* results["compliance"] = compliance_checker.check_compliance(text, contract_type)
CheckCompliance ==
    /\ compliance_result = NoResult
    /\ \E contract_type \in ContractTypes :
          compliance_result' \in check_compliance(contract_text, contract_type)
    /\ UNCHANGED contract_text
    /\ Frame("compliance")

SpecCompliance == InitCompliance /\ [][CheckCompliance]_vars

\* C5: if the pattern of every applicable check (basic, general and the
\* check list of the contract type) is in the text, the compliance score is
\* 100, also for an employment contract and for a lease of more than 12
\* months.
C5_AllPatternsPresentGivesFullScore ==
    compliance_result # NoResult =>
        LET findings == compliance_result.basic_requirements
                        \o compliance_result.general_compliance
                        \o Get(compliance_result, "employment_compliance", <<>>)
                        \o Get(compliance_result, "lease_compliance", <<>>)
        IN (\A k \in 1..Len(findings) : Get(findings[k], "found", TRUE))
              => compliance_result.compliance_score = 1000

\* C14: with contract type lease_agreement, whenever the text states a lease
\* term of more than 12 months (here "24 months"), wherever it stands in the
\* text, the registration action is among the issues; a shorter duration
\* earlier in the text does not suppress it.
C14_LongLeaseAlwaysNeedsRegistration ==
    (/\ compliance_result # NoResult
     /\ "lease_compliance" \in DOMAIN compliance_result
     /\ Contains(contract_text, "24 months"))
        => \E k \in 1..Len(compliance_result.issues) :
               compliance_result.issues[k] = "Register with Sub-Registrar office"

\* C6: the compliance score is 100 times the number of applicable checks
\* whose pattern was found divided by the number of applicable checks, to
\* one decimal, the general requirements among them; the checks without a
\* pattern are either all left out or all taken as found.
C6_ScoreIsShareOfAllChecks ==
    compliance_result # NoResult =>
        LET findings == compliance_result.basic_requirements
                        \o compliance_result.general_compliance
                        \o Get(compliance_result, "employment_compliance", <<>>)
                        \o Get(compliance_result, "lease_compliance", <<>>)
            found == Cardinality({k \in 1..Len(findings) : Get(findings[k], "found", FALSE)})
            with_pattern == Cardinality({k \in 1..Len(findings) : "found" \in DOMAIN findings[k]})
        IN \E others \in {0, Len(findings) - with_pattern} :
              compliance_result.compliance_score
                 \in RoundAny(1000 * (found + others), with_pattern + others)

-----------------------------------------------------------------------------
(* The optional LLM collaborator: LLMClient over the OpenAI and Anthropic *)
(* clients, and the explainer, suggester and summary generator on top.    *)
(* A provider call either returns a response text or raises (an API       *)
(* error, a time-out of the SDK); provider_calls lists the outcomes of    *)
(* the calls made.                                                        *)

\* LLMClient(provider), _select_client included; openai and anthropic say
\* whether that client is available (SDK importable, API key set).
LLMClient(provider, openai, anthropic) ==
    [provider |-> provider,
     openai_client |-> [available |-> openai],
     anthropic_client |-> [available |-> anthropic],
     active_client |->
        IF provider = "anthropic" /\ anthropic THEN "anthropic_client"
        ELSE IF provider = "openai" /\ openai THEN "openai_client"
        ELSE IF openai THEN "openai_client"
        ELSE IF anthropic THEN "anthropic_client"
        ELSE None]

\* LLMClient.is_available()
is_available(client) ==
    client.active_client # None /\ client[client.active_client].available

\* OpenAIClient.chat / AnthropicClient.chat of the active client for the
\* outcome of the API call.
client_chat(client, outcome) ==
    IF ~client[client.active_client].available
    THEN IF client.active_client = "openai_client"
         THEN "Error: OpenAI client not available. Please check your API key."
         ELSE "Error: Anthropic client not available. Please check your API key."
    ELSE IF outcome.raises
    THEN (IF client.active_client = "openai_client"
          THEN "Error calling OpenAI API: " ELSE "Error calling Anthropic API: ")
         \o outcome.text
    ELSE outcome.text

\* LLMClient._get_fallback_response() (without its leading warning sign).
get_fallback_response ==
    "AI-powered analysis is not available. ... The contract analysis will continue using rule-based methods only."

\* LLMClient.chat(user_message, system_prompt)
chat(client, outcome) ==
    IF ~is_available(client) THEN get_fallback_response ELSE client_chat(client, outcome)

\* The keys of ClauseExplainer.fallback_explanations.
fallback_explanations ==
    {"indemnity", "termination", "confidentiality", "payment_terms", "governing_law",
     "force_majeure", "intellectual_property", "dispute_resolution", "assignment", "amendment"}

\* ClauseExplainer._explain_fallback(clause_text, clause_type), with
\* _analyze_basic; the template of a known type stands as "<type>".
explain_fallback(clause_text, clause_type) ==
    LET text_lower == Lower(clause_text)
        elements ==
            (IF Contains(text_lower, "shall") \/ Contains(text_lower, "must")
             THEN <<"This clause creates **obligations** - things that must be done.">>
             ELSE <<>>)
            \o (IF Contains(text_lower, "shall not") \/ Contains(text_lower, "must not")
                THEN <<"This clause includes **prohibitions** - things that cannot be done.">>
                ELSE <<>>)
            \o (IF Contains(text_lower, "may")
                THEN <<"This clause grants certain **rights or permissions**.">>
                ELSE <<>>)
        base_explanation ==
            IF clause_type # None /\ clause_type \in fallback_explanations
            THEN <<"<" \o clause_type \o ">">>
            ELSE IF elements = <<>>
            THEN <<"This clause sets out general terms and conditions.">>
            ELSE elements
    IN <<"**Clause Explanation** (Rule-based analysis)">> \o base_explanation

\* ClauseExplainer.explain(clause_text, clause_type)
explainUnchecked(client, clause_text, clause_type, outcome) ==
    [original_text |-> clause_text,
     explanation |-> <<chat(client, outcome)>>,
     clause_type |-> clause_type,
     source |-> "ai"]

explain(client, clause_text, clause_type, outcome) ==
    [original_text |-> clause_text,
     explanation |-> IF is_available(client) THEN <<chat(client, outcome)>>
                     ELSE explain_fallback(clause_text, clause_type),
     clause_type |-> clause_type,
     source |-> IF is_available(client) THEN "ai" ELSE "template"]

\* ClauseSuggester.standard_alternatives: the keywords
\* original_pattern.split(".*") of each template.
standard_alternatives ==
    << [issue_type |-> "unlimited_indemnity", keywords |-> <<"indemnify", "all claims">>],
       [issue_type |-> "unilateral_termination",
        keywords |-> <<"terminate", "without cause", "without notice">>],
       [issue_type |-> "broad_non_compete",
        keywords |-> <<"non-compete", "worldwide", "perpetual">>],
       [issue_type |-> "ip_full_transfer",
        keywords |-> <<"assign all", "intellectual property">>],
       [issue_type |-> "long_payment_terms", keywords |-> <<"payment", "90 days|net 90">>],
       [issue_type |-> "one_sided_liability",
        keywords |-> <<"liability", "limited", "fees paid">>] >>

\* ClauseSuggester.suggest_alternative(clause_text) without concerns, with
\* _suggest_fallback; the suggestion of a template stands as its
\* issue_type.
suggest_alternative(client, clause_text, outcome) ==
    LET text_lower == Lower(clause_text)
        Applies(t) == \E k \in 1..Len(standard_alternatives[t].keywords) :
                         Contains(text_lower, standard_alternatives[t].keywords[k])
        matched == {t \in 1..Len(standard_alternatives) : Applies(t)}
    IN [original_clause |-> clause_text,
        concerns |-> <<>>,
        suggestion |->
            IF is_available(client)
            THEN [alternative_text |-> chat(client, outcome), source |-> "ai"]
            ELSE IF matched # {}
            THEN [alternative_text |->
                      standard_alternatives[CHOOSE t \in matched :
                                               \A u \in matched : t <= u].issue_type,
                  source |-> "template"]
            ELSE [alternative_text |-> "**Suggested improvements:**",
                  source |-> "template"],
        source |-> IF is_available(client) THEN "ai" ELSE "template"]

\* ContractSummaryGenerator.generate_summary(contract_text) without
\* entities and risk score.
generate_summary(client, text, outcome) ==
    LET ai_summary == IF is_available(client) THEN chat(client, outcome) ELSE None
    IN [ai_summary |-> ai_summary,
        structured_summary |-> <<>>,
        quick_facts |-> <<>>,
        source |-> IF ai_summary # None /\ ai_summary # "" THEN "ai" ELSE "extracted"]

\* The clause texts given to the LLM-backed components.
LLMTexts ==
    { "", "General terms.", "The Vendor shall not assign all rights.",
      "Either party may terminate without cause.", "Payment within 90 days." }

\* The clause_type hints: none, a type with a template, one without.
LLMClauseTypes == {None, "termination", "penalty"}

\* What a call of the provider's API can do: return a text (possibly the
\* empty one), or raise.
ProviderOutcomes ==
    { [raises |-> FALSE, text |-> "This clause means ..."],
      [raises |-> FALSE, text |-> ""],
      [raises |-> TRUE, text |-> "Request timed out."],
      [raises |-> TRUE, text |-> "Connection error."] }

InitLLM ==
    /\ contract_text \in LLMTexts
    /\ \E provider \in {"openai", "anthropic", "none"}, openai \in BOOLEAN, anthropic \in BOOLEAN :
          llm = LLMClient(provider, openai, anthropic)
    /\ provider_calls = <<>>
    /\ llm_output = NoResult
    /\ Idle("llm")

\* The API calls that an operation makes: one when a backend is available.
ProviderCalls(outcome) == IF is_available(llm) THEN <<outcome>> ELSE <<>>

\* The outcomes to consider for an operation: all of them when the
\* provider is called, otherwise one (it is not looked at).
Outcomes ==
    IF is_available(llm) THEN ProviderOutcomes ELSE {[raises |-> FALSE, text |-> ""]}

Explain ==
    /\ llm_output = NoResult
    /\ \E clause_type \in LLMClauseTypes, outcome \in Outcomes :
          /\ llm_output' = [op |-> "explain",
                            result |-> explain(llm, contract_text, clause_type, outcome)]
          /\ provider_calls' = provider_calls \o ProviderCalls(outcome)
    /\ UNCHANGED <<llm, contract_text>>
    /\ Frame("llm")

SuggestAlternative ==
    /\ llm_output = NoResult
    /\ \E outcome \in Outcomes :
          /\ llm_output' = [op |-> "suggest_alternative",
                            result |-> suggest_alternative(llm, contract_text, outcome)]
          /\ provider_calls' = provider_calls \o ProviderCalls(outcome)
    /\ UNCHANGED <<llm, contract_text>>
    /\ Frame("llm")

GenerateSummary ==
    /\ llm_output = NoResult
    /\ \E outcome \in Outcomes :
          /\ llm_output' = [op |-> "generate_summary",
                            result |-> generate_summary(llm, contract_text, outcome)]
          /\ provider_calls' = provider_calls \o ProviderCalls(outcome)
    /\ UNCHANGED <<llm, contract_text>>
    /\ Frame("llm")

Chat ==
    /\ llm_output = NoResult
    /\ \E outcome \in Outcomes :
          /\ llm_output' = [op |-> "chat", result |-> chat(llm, outcome)]
          /\ provider_calls' = provider_calls \o ProviderCalls(outcome)
    /\ UNCHANGED <<llm, contract_text>>
    /\ Frame("llm")

NextLLM == Explain \/ SuggestAlternative \/ GenerateSummary \/ Chat

SpecLLM == InitLLM /\ [][NextLLM]_vars

\* C15: when the provider call fails while a backend is configured,
\* explain and generate_summary return the template / extracted result
\* (source 'template' resp. 'extracted'), never the error message as an AI
\* result with source 'ai'.
C15_FailedCallTreatedAsAbsent ==
    (/\ llm_output # NoResult
     /\ provider_calls # <<>>
     /\ provider_calls[1].raises)
        => /\ llm_output.op = "explain" =>
                 /\ llm_output.result.source = "template"
                 /\ llm_output.result.explanation
                       = explain_fallback(contract_text, llm_output.result.clause_type)
           /\ llm_output.op = "generate_summary" =>
                 /\ llm_output.result.source = "extracted"
                 /\ llm_output.result.ai_summary = None

\* C16: with no LLM backend available, explain and suggest_alternative
\* call no provider and return a template result with source 'template',
\* and LLMClient.chat returns the fixed fallback message.
C16_NoBackendMeansTemplate ==
    (llm_output # NoResult /\ ~is_available(llm))
        => /\ provider_calls = <<>>
           /\ llm_output.op = "explain" =>
                 /\ llm_output.result.source = "template"
                 /\ llm_output.result.explanation[1]
                       = "**Clause Explanation** (Rule-based analysis)"
           /\ llm_output.op = "suggest_alternative" =>
                 /\ llm_output.result.source = "template"
                 /\ llm_output.result.suggestion.source = "template"
           /\ llm_output.op = "chat" => llm_output.result = get_fallback_response

\* C16 witness: without a backend a clause with "shall not" and no type
\* hint was explained from the templates, and nothing was sent.
C16_Witness ==
    /\ llm_output # NoResult
    /\ ~is_available(llm)
    /\ llm.provider = "openai"
    /\ llm_output.op = "explain"
    /\ contract_text = "The Vendor shall not assign all rights."
    /\ Len(llm_output.result.explanation) = 3
    /\ llm_output.result.source = "template"
    /\ provider_calls = <<>>

-----------------------------------------------------------------------------
(* EntityExtractor without spaCy: the parties, the durations and the       *)
(* jurisdictions of extract_all (the dates, amounts and percentages are    *)
(* found by loops of the same kind as the durations).                      *)

\* EntityExtractor.patterns of the parties, the durations and the
\* jurisdictions.
entity_patterns ==
    [parties |->
        << re_compile("(?:between|party|parties)[:\\s]+([A-Z][A-Za-z\\s&,\\.]+?)(?:and|,|\\(|hereinafter)",
                      {"IGNORECASE"}),
           re_compile("hereinafter\\s+(?:referred\\s+to\\s+as|called)\\s+[\"']?([A-Za-z\\s]+)[\"']?",
                      {"IGNORECASE"}),
           re_compile("([A-Z][A-Za-z\\s&]+(?:Pvt\\.?|Private|Ltd\\.?|Limited|LLP|Inc\\.?|Corp\\.?))",
                      {"IGNORECASE"}) >>,
     durations |->
        << re_compile("(\\d+)\\s*(?:years?|months?|weeks?|days?)", {"IGNORECASE"}),
           re_compile("(?:period|term|duration)\\s+of\\s+(\\d+)\\s*(?:years?|months?|weeks?|days?)",
                      {"IGNORECASE"}),
           re_compile("for\\s+a\\s+(?:period|term)\\s+of\\s+(\\d+)\\s*(?:years?|months?|weeks?|days?)",
                      {"IGNORECASE"}) >>,
     jurisdictions |->
        << re_compile("(?:jurisdiction|laws?\\s+of|courts?\\s+(?:of|at|in))\\s+([A-Z][A-Za-z\\s]+?)(?:\\.|,|and)",
                      {"IGNORECASE"}),
           re_compile("(?:Mumbai|Delhi|Bangalore|Chennai|Kolkata|Hyderabad|Pune|Ahmedabad)\\s+(?:courts?|jurisdiction)",
                      {"IGNORECASE"}) >>]

RECURSIVE Join(_, _)
\* sep.join(pieces)
Join(pieces, sep) ==
    IF pieces = <<>> THEN ""
    ELSE IF Len(pieces) = 1 THEN pieces[1]
    ELSE pieces[1] \o sep \o Join(Tail(pieces), sep)

\* The name of a party as _extract_parties cleans it: match.strip(),
\* re.sub(r'\s+', ' ', ...), strip('.,').
PartyName(match) ==
    The({The({IF keep = {} THEN ""
              ELSE SubSeq(name, CHOOSE i \in keep : \A j \in keep : i <= j,
                          CHOOSE i \in keep : \A j \in keep : i >= j)
              : keep \in {{i \in 1..Len(name) : CharAt(name, i) \notin {".", ","}}}})
         : name \in {Join(re_split(re_compile("\\s+", {}), Strip(match)), " ")}})

RECURSIVE FirstMentions(_, _)
\* The names longer than 3 characters, each at its first mention; seen are
\* the lower-cased names met before.
FirstMentions(names, seen) ==
    IF names = <<>> THEN <<>>
    ELSE IF Len(names[1]) > 3 /\ Lower(names[1]) \notin seen
    THEN <<names[1]>> \o FirstMentions(Tail(names), seen \cup {Lower(names[1])})
    ELSE FirstMentions(Tail(names), seen)

\* EntityExtractor._extract_parties(text), with _classify_party_type
extract_parties(text) ==
    The({[k \in 1..Min(10, Len(names)) |->
            [name |-> names[k],
             type |-> IF \E ind \in {"pvt", "private", "ltd", "limited", "llp", "inc", "corp",
                                     "company", "firm"} : Contains(Lower(names[k]), ind)
                      THEN "company" ELSE "individual_or_unknown"]]
         : names \in {The({FirstMentions([k \in 1..Len(found) |-> PartyName(found[k])], {})
                           : found \in {re_findall(entity_patterns.parties, text)}})}})

\* EntityExtractor._extract_durations(text)
extract_durations(text) ==
    Flatten([p \in 1..Len(entity_patterns.durations) |->
        The({[j \in 1..Len(ms) |->
                The({[raw |-> full,
                      value |-> int(Group(ms[j], text, 1)),
                      unit |-> IF Contains(Lower(full), "year") THEN "years"
                               ELSE IF Contains(Lower(full), "month") THEN "months"
                               ELSE IF Contains(Lower(full), "week") THEN "weeks"
                               ELSE "days"]
                     : full \in {Group(ms[j], text, 0)}})]
             : ms \in {re_finditer(entity_patterns.durations[p], text, 1)}})])

\* The set that _extract_jurisdictions(text) collects.
jurisdictions(text) ==
    The({{Strip(found[k]) : k \in 1..Len(found)} : found \in
            {re_findall(entity_patterns.jurisdictions, text)}})
    \cup {city \in {"Mumbai", "Delhi", "New Delhi", "Bangalore", "Bengaluru", "Chennai",
                    "Kolkata", "Hyderabad", "Pune", "Ahmedabad"} :
             Contains(Lower(text), Lower(city))}

\* list(s) of a set s of strings: its elements in the order of the hash
\* table, which the hash seed of the interpreter process decides.
list(s) ==
    {order \in [1..Cardinality(s) -> s] : \A e \in s : \E k \in DOMAIN order : order[k] = e}

\* EntityExtractor.extract_all(text) without spaCy: the results it can
\* return (parties, durations and jurisdictions of them).
extract_all(text) ==
    The({The({The({{[parties |-> parties, durations |-> durations, jurisdictions |-> order]
                    : order \in list(found)}
                   : found \in {jurisdictions(text)}})
              : durations \in {extract_durations(text)}})
         : parties \in {extract_parties(text)}})

\* The pieces that the texts given to the entity extractor are made of:
\* courts of one city in two letter cases, another city, one duration
\* that all three duration patterns match, the same duration once more, a
\* party in two letter cases, a word without any entity.
EntityParts ==
    { "courts at Mumbai, ",
      "courts of mumbai. ",
      "Delhi courts ",
      "for a period of 12 months ",
      "12 months ",
      "between Acme Pvt Ltd and ",
      "ACME PVT LTD ",
      "the " }

\* The most pieces in one text.
MaxEntityParts == 2

InitEntities ==
    /\ contract_text \in UNION {StringsOf(EntityParts, n) : n \in 0..MaxEntityParts}
    /\ extracted_entities = NoResult
    /\ entities_restarted = NoResult
    /\ Idle("entities")

\* The text is analysed.
ExtractAll ==
    /\ extracted_entities = NoResult
    /\ extracted_entities' \in extract_all(contract_text)
    /\ UNCHANGED <<contract_text, entities_restarted>>
    /\ Frame("entities")

\* The same text is analysed again after the application was started anew
\* (another interpreter process, another hash seed).
ExtractAllRestarted ==
    /\ extracted_entities # NoResult
    /\ entities_restarted = NoResult
    /\ entities_restarted' \in extract_all(contract_text)
    /\ UNCHANGED <<contract_text, extracted_entities>>
    /\ Frame("entities")

NextEntities == ExtractAll \/ ExtractAllRestarted

SpecEntities == InitEntities /\ [][NextEntities]_vars

\* C17: two runs on the same text return identical results, the order of
\* every result list (the jurisdictions of extract_all) included.
C17_RunsOnSameTextAgree ==
    (extracted_entities # NoResult /\ entities_restarted # NoResult)
        => extracted_entities = entities_restarted

\* C18: within each entity kind of the result of extract_all no two entries
\* have the same lower-cased, whitespace-collapsed raw value.
C18_NoDuplicateWithinKind ==
    extracted_entities # NoResult =>
        LET Normal(s) == Lower(Join(re_split(re_compile("\\s+", {}), s), " "))
            Distinct(raws) == \A j, k \in 1..Len(raws) :
                                 j # k => Normal(raws[j]) # Normal(raws[k])
        IN /\ Distinct([k \in 1..Len(extracted_entities.parties) |-> extracted_entities.parties[k].name])
           /\ Distinct([k \in 1..Len(extracted_entities.durations) |-> extracted_entities.durations[k].raw])
           /\ Distinct(extracted_entities.jurisdictions)

-----------------------------------------------------------------------------
(* AmbiguityDetector                                                       *)

\* AmbiguityDetector.vague_terms
vague_terms ==
    << [severity |-> "high_ambiguity",
        terms |-> <<"reasonable", "reasonably", "appropriate", "appropriately", "adequate",
                    "adequately", "sufficient", "sufficiently", "material", "materially",
                    "substantial", "substantially", "promptly", "timely",
                    "as soon as possible", "in due course", "best efforts",
                    "commercially reasonable efforts", "good faith", "fair", "fairly">>],
       [severity |-> "medium_ambiguity",
        terms |-> <<"may", "might", "could", "possibly", "potentially", "generally", "usually",
                    "typically", "normally", "including but not limited to", "such as",
                    "for example", "or otherwise", "and/or", "etc", "et cetera",
                    "from time to time", "as needed", "as required", "similar", "comparable",
                    "equivalent">>],
       [severity |-> "low_ambiguity",
        terms |-> <<"approximately", "about", "around", "roughly", "more or less", "up to",
                    "at least", "no less than">>] >>

\* AmbiguityDetector.ambiguity_patterns
ambiguity_patterns ==
    << [pattern |-> re_compile("at\\s+(?:the|its)\\s+(?:sole\\s+)?discretion", {"IGNORECASE"}),
        description |-> "Discretionary clause - outcome depends on one party's judgment"],
       [pattern |-> re_compile("to\\s+be\\s+determined\\s+(?:later|subsequently)?",
                               {"IGNORECASE"}),
        description |-> "Undefined terms requiring future specification"],
       [pattern |-> re_compile("as\\s+(?:may\\s+be\\s+)?(?:mutually\\s+)?agreed", {"IGNORECASE"}),
        description |-> "Requires future agreement - terms not fixed"],
       [pattern |-> re_compile("(?:any|all)\\s+other\\s+(?:\\w+\\s+)?(?:matters?|issues?|items?)",
                               {"IGNORECASE"}),
        description |-> "Catch-all provision - scope unclear"],
       [pattern |-> re_compile("(?:any|all)\\s+(?:relevant|applicable|related)", {"IGNORECASE"}),
        description |-> "Broad scope reference"],
       [pattern |-> re_compile("(?:customary|standard|normal)\\s+(?:practice|procedure)",
                               {"IGNORECASE"}),
        description |-> "Reference to undefined standard"],
       [pattern |-> re_compile("without\\s+limitation", {"IGNORECASE"}),
        description |-> "Non-exhaustive list"],
       [pattern |-> re_compile("whatsoever", {"IGNORECASE"}),
        description |-> "Extremely broad scope"] >>

\* AmbiguityDetector.essential_terms
essential_terms ==
    << [category |-> "payment",
        indicators |-> {"payment", "compensation", "fee", "price", "cost", "amount"}],
       [category |-> "timeline",
        indicators |-> {"date", "day", "month", "year", "period", "term", "duration"}],
       [category |-> "deliverables",
        indicators |-> {"deliver", "provide", "perform", "complete", "service"}],
       [category |-> "termination", indicators |-> {"terminate", "end", "cancel", "expire"}],
       [category |-> "liability",
        indicators |-> {"liability", "responsible", "liable", "indemnify"}] >>

\* AmbiguityDetector._get_context(text, start, end) for the match m.
ambiguity_context(text, m) ==
    LET context_start == Max(0, m.from[0] - 1 - 75)
        context_end == Min(Len(text), m.end - 1 + 75)
    IN (IF context_start > 0 THEN "..." ELSE "")
       \o Strip(SubSeq(text, context_start + 1, context_end))
       \o (IF context_end < Len(text) THEN "..." ELSE "")

\* r'\b' + re.escape(term) + r'\b' of each vague term.
vague_patterns ==
    [v \in 1..Len(vague_terms) |->
        [t \in 1..Len(vague_terms[v].terms) |->
            re_compile("\\b" \o re_escape(vague_terms[v].terms[t]) \o "\\b", {"IGNORECASE"})]]

\* AmbiguityDetector._find_vague_terms(text)
find_vague_terms(text) ==
    Flatten([v \in 1..Len(vague_terms) |->
        Flatten([t \in 1..Len(vague_terms[v].terms) |->
            The({[j \in 1..Len(ms) |->
                    [term |-> vague_terms[v].terms[t],
                     severity |-> vague_terms[v].severity,
                     context |-> ambiguity_context(text, ms[j]),
                     position |-> ms[j].from[0] - 1]]
                 : ms \in {re_finditer(vague_patterns[v][t], Lower(text), 1)}})])])

\* AmbiguityDetector._find_ambiguous_patterns(text)
find_ambiguous_patterns(text) ==
    Flatten([p \in 1..Len(ambiguity_patterns) |->
        The({[j \in 1..Len(ms) |->
                [pattern |-> Group(ms[j], text, 0),
                 description |-> ambiguity_patterns[p].description,
                 context |-> ambiguity_context(text, ms[j]),
                 position |-> ms[j].from[0] - 1]]
             : ms \in {re_finditer(ambiguity_patterns[p].pattern, text, 1)}})])

\* AmbiguityDetector._is_defined_term(text, term)
is_defined_term(text, term) ==
    \E pattern \in {"\"" \o re_escape(term) \o "\"",
                    "'" \o re_escape(term) \o "'",
                    "\"" \o re_escape(term) \o "\"\\s+means",
                    "'" \o re_escape(term) \o "'\\s+means",
                    "\\b" \o re_escape(term) \o "\\b\\s+(?:shall\\s+)?mean"} :
        re_search(re_compile(pattern, {"IGNORECASE"}), text, 1).end # 0

\* undefined_patterns of _find_undefined_references
undefined_patterns ==
    << re_compile("as\\s+defined\\s+(?:in|by)\\s+(?:the\\s+)?(\\w+)", {"IGNORECASE"}),
       re_compile("pursuant\\s+to\\s+(?:the\\s+)?(\\w+)", {"IGNORECASE"}),
       re_compile("in\\s+accordance\\s+with\\s+(?:the\\s+)?(\\w+)", {"IGNORECASE"}),
       re_compile("subject\\s+to\\s+(?:the\\s+)?(\\w+)", {"IGNORECASE"}) >>

\* AmbiguityDetector._find_undefined_references(text)
find_undefined_references(text) ==
    LET Undefined(m) == ~is_defined_term(text, Group(m, text, 1))
    IN Flatten([p \in 1..Len(undefined_patterns) |->
          The({[j \in 1..Len(ms) |->
                  [reference |-> Group(ms[j], text, 1),
                   full_match |-> Group(ms[j], text, 0),
                   context |-> ambiguity_context(text, ms[j])]]
               : ms \in {SelectSeq(re_finditer(undefined_patterns[p], text, 1),
                                   Undefined)}})])

\* The patterns of specificity_checks; the amounts are looked for without
\* the rupee sign.
specificity_patterns ==
    [amounts_specified |-> re_compile("(?:Rs\\.?|INR|\\$)\\s*[\\d,]+", {}),
     dates_specified |-> re_compile("\\d{1,2}[\\/\\-\\.]\\d{1,2}[\\/\\-\\.]\\d{2,4}", {}),
     durations_specified |-> re_compile("\\d+\\s*(?:days?|months?|years?)", {})]

\* AmbiguityDetector._check_missing_specifics(text)
check_missing_specifics(text) ==
    LET Missing(c) == \A ind \in essential_terms[c].indicators : ~Contains(Lower(text), ind)
    IN [missing_categories |->
            The({[k \in 1..Len(missing) |-> essential_terms[missing[k]].category]
                 : missing \in {SelectSeq([c \in 1..Len(essential_terms) |-> c], Missing)}}),
        specificity_checks |->
            [check \in DOMAIN specificity_patterns |->
                re_search(specificity_patterns[check], text, 1).end # 0]]

\* AmbiguityDetector._calculate_score(findings, text_length), in tenths; the
\* sum is taken in hundredths and rounded to one decimal.
ambiguity_calculate_scoreUncapped(findings) ==
    LET Severe(sev) == Cardinality({k \in 1..Len(findings.vague_terms) :
                                       findings.vague_terms[k].severity = sev})
    IN Min(100, Round1(Severe("high_ambiguity") * 50
                       + Min(200, Severe("medium_ambiguity") * 20)
                       + Min(200, Len(findings.ambiguous_patterns) * 40)
                       + Min(150, Len(findings.undefined_references) * 30)
                       + Len(findings.missing_specifics.missing_categories) * 50))

ambiguity_calculate_score(findings) ==
    LET Severe(sev) == Cardinality({k \in 1..Len(findings.vague_terms) :
                                       findings.vague_terms[k].severity = sev})
    IN Min(100, Round1(Min(300, Severe("high_ambiguity") * 50)
                       + Min(200, Severe("medium_ambiguity") * 20)
                       + Min(200, Len(findings.ambiguous_patterns) * 40)
                       + Min(150, Len(findings.undefined_references) * 30)
                       + Len(findings.missing_specifics.missing_categories) * 50))

\* AmbiguityDetector._get_risk_level(score), the score in tenths.
ambiguity_risk_level(score) ==
    IF score <= 30 THEN "low" ELSE IF score <= 60 THEN "medium" ELSE "high"

\* AmbiguityDetector._generate_recommendations(findings)
ambiguity_recommendations(findings) ==
    LET High(v) == v.severity = "high_ambiguity"
        high_severity == SelectSeq(findings.vague_terms, High)
        missing == findings.missing_specifics.missing_categories
    IN (IF high_severity # <<>>
        THEN <<"Define specific criteria for vague terms like '" \o high_severity[1].term
               \o "' to avoid interpretation disputes.">>
        ELSE <<>>)
       \o (IF findings.ambiguous_patterns # <<>>
           THEN <<"Replace discretionary clauses with objective criteria where possible.">>
           ELSE <<>>)
       \o [k \in 1..Len(missing) |-> "Add specific " \o missing[k] \o " terms to the contract."]
       \o (IF ~findings.missing_specifics.specificity_checks.dates_specified
           THEN <<"Include specific dates for key milestones and deadlines.">>
           ELSE <<>>)

\* AmbiguityDetector.detect(text)
detect(text) ==
    The({findings @@ [ambiguity_score |-> ambiguity_calculate_score(findings),
                      risk_level |-> ambiguity_risk_level(ambiguity_calculate_score(findings)),
                      recommendations |-> ambiguity_recommendations(findings)]
         : findings \in {[vague_terms |-> find_vague_terms(text),
                          ambiguous_patterns |-> find_ambiguous_patterns(text),
                          undefined_references |-> find_undefined_references(text),
                          missing_specifics |-> check_missing_specifics(text)]}})

\* The pieces that the texts given to the ambiguity detector are made of:
\* ten high-ambiguity terms, a definition of the term "fair" with five more
\* uses of it, a reference that the text breaks off in, medium-ambiguity
\* terms with a discretionary clause, the five essential categories, one
\* more high-ambiguity term.
AmbiguityParts ==
    { "fair fair fair fair fair fair fair fair fair fair ",
      "\"fair\" means just fair fair fair fair fair ",
      "pursuant to the",
      "may and/or at its sole discretion ",
      "payment date deliver terminate liability ",
      "reasonable " }

\* The most pieces in one text.
MaxAmbiguityParts == 2

\* The high-ambiguity terms of which one more instance is appended.
AppendedTerms == {"fair", "reasonable", "commercially reasonable efforts"}

InitAmbiguity ==
    /\ contract_text \in UNION {StringsOf(AmbiguityParts, n) : n \in 0..MaxAmbiguityParts}
    /\ ambiguity_findings = NoResult
    /\ appended_findings = NoResult
    /\ Idle("ambiguity")

\* The text is analysed.
Detect ==
    /\ ambiguity_findings = NoResult
    /\ ambiguity_findings' = detect(contract_text)
    /\ UNCHANGED <<contract_text, appended_findings>>
    /\ Frame("ambiguity")

\* The text with one more instance of a high-ambiguity term at its end is
\* analysed.
DetectAppended ==
    /\ appended_findings = NoResult
    /\ \E w \in AppendedTerms :
          appended_findings' = [term |-> w, findings |-> detect(contract_text \o " " \o w)]
    /\ UNCHANGED <<contract_text, ambiguity_findings>>
    /\ Frame("ambiguity")

NextAmbiguity == Detect \/ DetectAppended

SpecAmbiguity == InitAmbiguity /\ [][NextAmbiguity]_vars

\* C8: appending one more instance of a high-ambiguity term to a text never
\* lowers the ambiguity score; the high-ambiguity contribution grows by 0.5
\* until it has reached its cap of 3.0.
C8_ScoreNeverLowerWithOneMoreTerm ==
    (ambiguity_findings # NoResult /\ appended_findings # NoResult) =>
        LET High(v) == v.severity = "high_ambiguity"
            before == Len(SelectSeq(ambiguity_findings.vague_terms, High))
            after == Len(SelectSeq(appended_findings.findings.vague_terms, High))
        IN /\ appended_findings.findings.ambiguity_score >= ambiguity_findings.ambiguity_score
           /\ Min(30, 5 * after) = Min(30, 5 * before + 5)

\* C19: the ambiguity score is min(10, min(3.0, 0.5 H) + min(2.0, 0.2 M)
\* + min(2.0, 0.4 P) + min(1.5, 0.3 U) + 0.5 C) for H high and M medium
\* vague-term matches, P pattern matches, U undefined references and C
\* missing categories (at most 5); it lies in [0,10]; the risk level is low
\* up to 3, medium up to 6, high above.
C19_ScoreFormulaAndLevel ==
    ambiguity_findings # NoResult =>
        LET High(v) == v.severity = "high_ambiguity"
            Medium(v) == v.severity = "medium_ambiguity"
            H == Len(SelectSeq(ambiguity_findings.vague_terms, High))
            M == Len(SelectSeq(ambiguity_findings.vague_terms, Medium))
            P == Len(ambiguity_findings.ambiguous_patterns)
            U == Len(ambiguity_findings.undefined_references)
            C == Len(ambiguity_findings.missing_specifics.missing_categories)
            score == ambiguity_findings.ambiguity_score
        IN /\ C <= 5
           /\ score = Min(100, Min(30, 5 * H) + Min(20, 2 * M) + Min(20, 4 * P)
                               + Min(15, 3 * U) + 5 * C)
           /\ 0 <= score /\ score <= 100
           /\ ambiguity_findings.risk_level = "low" <=> score <= 30
           /\ ambiguity_findings.risk_level = "medium" <=> (30 < score /\ score <= 60)
           /\ ambiguity_findings.risk_level = "high" <=> score > 60

\* C19 witness: ten high-ambiguity terms count 3.0, two medium ones 0.4,
\* one pattern 0.4 and the five missing categories 2.5: 6.3, high.
C19_Witness ==
    /\ ambiguity_findings # NoResult
    /\ contract_text = "fair fair fair fair fair fair fair fair fair fair may and/or at its sole discretion "
    /\ Len(ambiguity_findings.vague_terms) = 12
    /\ Len(ambiguity_findings.ambiguous_patterns) = 1
    /\ Len(ambiguity_findings.missing_specifics.missing_categories) = 5
    /\ ambiguity_findings.ambiguity_score = 63
    /\ ambiguity_findings.risk_level = "high"

-----------------------------------------------------------------------------
(* ObligationAnalyzer                                                      *)

\* ObligationAnalyzer.markers, each type with its strengths in the order of
\* the dictionary.
markers ==
    [obligation |->
        << [strength |-> "strong",
            markers |-> <<"shall", "must", "will", "agrees to", "undertakes to",
                          "is required to", "commits to", "is obligated to">>],
           [strength |-> "moderate",
            markers |-> <<"should", "is expected to", "is responsible for",
                          "has the duty to", "needs to">>],
           [strength |-> "conditional",
            markers |-> <<"shall, upon", "must, if", "will, provided that">>] >>,
     right |->
        << [strength |-> "strong",
            markers |-> <<"may", "is entitled to", "has the right to",
                          "reserves the right to", "can", "is permitted to">>],
           [strength |-> "moderate", markers |-> <<"could", "might", "is allowed to">>],
           [strength |-> "exclusive",
            markers |-> <<"sole right", "exclusive right", "sole discretion">>] >>,
     prohibition |->
        << [strength |-> "strong",
            markers |-> <<"shall not", "must not", "will not", "cannot",
                          "may not", "is prohibited from", "is not permitted to">>],
           [strength |-> "moderate", markers |-> <<"should not", "is not allowed to">>],
           [strength |-> "exceptions",
            markers |-> <<"except as", "unless", "provided however">>] >>]

\* ObligationAnalyzer.party_roles, in the order of the dictionary.
party_roles ==
    << [role |-> "first_party",
        indicators |-> <<"party of the first part", "first party", "company", "employer",
                         "lessor", "vendor", "service provider", "licensor">>],
       [role |-> "second_party",
        indicators |-> <<"party of the second part", "second party", "employee",
                         "lessee", "tenant", "client", "customer", "licensee">>],
       [role |-> "both_parties",
        indicators |-> <<"both parties", "either party", "each party", "parties">>] >>

\* The patterns of _split_sentences: the abbreviations, white space (a
\* sentence boundary is white space that follows ".", "!" or "?"), and the
\* stand-in for the period of an abbreviation.
sentence_patterns ==
    [abbreviation |-> re_compile("\\b(Mr|Mrs|Ms|Dr|Ltd|Pvt|Inc|Corp|vs|etc)\\.\\s", {}),
     space |-> re_compile("\\s+", {}),
     dot |-> re_compile("<DOT>", {})]

\* The pieces of the string between the matches ms.
SplitAt(string, ms) ==
    [k \in 1..(Len(ms) + 1) |->
        SubSeq(string, IF k = 1 THEN 1 ELSE ms[k - 1].end,
               IF k > Len(ms) THEN Len(string) ELSE ms[k].from[0] - 1)]

\* ObligationAnalyzer._split_sentences(text)
split_sentences(text) ==
    LET Long(s) == Len(s) > 20
        Dotted(string) ==
            The({The({Join([k \in 1..Len(pieces) |->
                               pieces[k] \o (IF k > Len(ms) THEN ""
                                             ELSE Group(ms[k], string, 1) \o "<DOT> ")], "")
                      : pieces \in {SplitAt(string, ms)}})
                 : ms \in {re_finditer(sentence_patterns.abbreviation, string, 1)}})
        Boundaries(string) ==
            LET AfterStop(m) == CharAt(string, m.from[0] - 1) \in {".", "!", "?"}
            IN SelectSeq(re_finditer(sentence_patterns.space, string, 1), AfterStop)
    IN The({The({SelectSeq([k \in 1..Len(pieces) |->
                               Strip(Join(re_split(sentence_patterns.dot, pieces[k]), "."))],
                           Long)
                 : pieces \in {SplitAt(string, Boundaries(string))}})
            : string \in {Dotted(text)}})

\* ObligationAnalyzer._identify_affected_party(sentence)
identify_affected_party(sentence) ==
    LET Named(r) == \E k \in 1..Len(r.indicators) : Contains(Lower(sentence), r.indicators[k])
    IN The({IF roles = <<>> THEN "unspecified" ELSE roles[1].role
            : roles \in {SelectSeq(party_roles, Named)}})

\* The first strength of the type with a marker in the sentence, and the
\* first such marker of it; NoResult when the type has no marker in it.
FirstMarker(type, sentence_lower) ==
    LET In(marker) == Contains(sentence_lower, marker)
        Has(tier) == SelectSeq(tier.markers, In) # <<>>
    IN The({IF tiers = <<>> THEN NoResult
            ELSE [strength |-> tiers[1].strength,
                  markers |-> <<SelectSeq(tiers[1].markers, In)[1]>>]
            : tiers \in {SelectSeq(markers[type], Has)}})

\* ObligationAnalyzer._classify_sentence(sentence)
classify_sentenceObligationFirst(sentence) ==
    LET Found(type) == FirstMarker(type, Lower(sentence))
        Classified(type) ==
            [type |-> type, strength |-> Found(type).strength,
             markers |-> Found(type).markers,
             affected_party |-> identify_affected_party(sentence)]
    IN IF Found("obligation") # NoResult THEN Classified("obligation")
       ELSE IF Found("prohibition") # NoResult THEN Classified("prohibition")
       ELSE IF Found("right") # NoResult THEN Classified("right")
       ELSE [type |-> "neutral", strength |-> None, markers |-> <<>>,
             affected_party |-> "unknown"]

classify_sentence(sentence) ==
    LET Found(type) == FirstMarker(type, Lower(sentence))
        Classified(type) ==
            [type |-> type, strength |-> Found(type).strength,
             markers |-> Found(type).markers,
             affected_party |-> identify_affected_party(sentence)]
    IN IF Found("prohibition") # NoResult THEN Classified("prohibition")
       ELSE IF Found("obligation") # NoResult THEN Classified("obligation")
       ELSE IF Found("right") # NoResult THEN Classified("right")
       ELSE [type |-> "neutral", strength |-> None, markers |-> <<>>,
             affected_party |-> "unknown"]

\* ObligationAnalyzer.analyze(text)
analyze(text) ==
    LET Entry(c) == [text |-> c.text, strength |-> c.classification.strength,
                     affected_party |-> c.classification.affected_party,
                     markers_found |-> c.classification.markers]
        Strong(o) == o.strength = "strong"
        Exclusive(r) == r.strength = "exclusive"
    IN The({The({[obligations |-> kept.obligation,
                  rights |-> kept.right,
                  prohibitions |-> kept.prohibition,
                  summary |->
                     [total_obligations |-> Len(kept.obligation),
                      total_rights |-> Len(kept.right),
                      total_prohibitions |-> Len(kept.prohibition),
                      strong_obligations |-> Len(SelectSeq(kept.obligation, Strong)),
                      exclusive_rights |-> Len(SelectSeq(kept.right, Exclusive))]]
                 : kept \in {[type \in {"obligation", "right", "prohibition"} |->
                                LET Typed(c) == c.classification.type = type
                                IN The({[k \in 1..Len(typed) |-> Entry(typed[k])]
                                        : typed \in {SelectSeq(classified, Typed)}})]}})
            : classified \in {The({[k \in 1..Len(split) |->
                                      [text |-> split[k],
                                       classification |-> classify_sentence(split[k])]]
                                   : split \in {split_sentences(text)}})}})

\* ObligationAnalyzer.get_one_sided_terms(analysis_result)
get_one_sided_terms(analysis_result) ==
    LET ExclusiveFirst(right) ==
            right.strength = "exclusive" /\ right.affected_party = "first_party"
        StrongSecond(prohibition) ==
            prohibition.strength = "strong" /\ prohibition.affected_party = "second_party"
        exclusive == SelectSeq(Get(analysis_result, "rights", <<>>), ExclusiveFirst)
        prohibited == SelectSeq(Get(analysis_result, "prohibitions", <<>>), StrongSecond)
        first_party_favored ==
            [k \in 1..Len(exclusive) |->
                [type |-> "exclusive_right", text |-> exclusive[k].text]]
            \o [k \in 1..Len(prohibited) |->
                [type |-> "strong_prohibition", text |-> prohibited[k].text]]
        second_party_favored == <<>>
        first_party_score == Len(first_party_favored)
        second_party_score == Len(second_party_favored)
    IN [first_party_favored |-> first_party_favored,
        second_party_favored |-> second_party_favored,
        concerns |-> [k \in 1..Len(exclusive) |->
                         "Exclusive right favoring first party: "
                         \o SubSeq(exclusive[k].text, 1, Min(100, Len(exclusive[k].text)))
                         \o "..."],
        assessment |->
            IF first_party_score > second_party_score + 3
            THEN "Contract appears to favor the first party (Company/Employer/Lessor)"
            ELSE IF second_party_score > first_party_score + 3
            THEN "Contract appears to favor the second party"
            ELSE "Contract appears relatively balanced"]

\* The pieces that the texts given to the obligation analyzer are made of:
\* a prohibition with an obligation marker in it, a conditional obligation,
\* two exclusive rights of the first party, two exclusive rights of the
\* second party, two strong prohibitions on the second party, a sentence of
\* 20 characters or fewer, an abbreviation before a right, a sentence with
\* no marker, a moderate right.
ObligationParts ==
    { "The Vendor shall not assign this Agreement. ",
      "The Client shall, upon invoice, pay the fees. ",
      "The Company has the sole right to set prices. The Company has sole discretion over hiring! ",
      "The Tenant has the exclusive right to renew. The Tenant has sole discretion over the garden. ",
      "The Tenant may not sublet the flat. The Employee cannot disclose the recipe. ",
      "It may rain. ",
      "Acme Pvt. Ltd. may end this Agreement. ",
      "This Agreement is dated the first of June. ",
      "The Customer could ask for a refund later. " }

\* The most pieces in one text.
MaxObligationParts == 2

InitObligations ==
    /\ contract_text \in UNION {StringsOf(ObligationParts, n) : n \in 0..MaxObligationParts}
    /\ obligation_analysis = NoResult
    /\ one_sided_terms = NoResult
    /\ Idle("obligations")

\* obligations = obligation_analyzer.analyze(text)
Analyze ==
    /\ obligation_analysis = NoResult
    /\ obligation_analysis' = analyze(contract_text)
    /\ UNCHANGED <<contract_text, one_sided_terms>>
    /\ Frame("obligations")

\* ObligationAnalyzer.get_one_sided_terms of the analysis.
GetOneSidedTerms ==
    /\ obligation_analysis # NoResult
    /\ one_sided_terms = NoResult
    /\ one_sided_terms' = get_one_sided_terms(obligation_analysis)
    /\ UNCHANGED <<contract_text, obligation_analysis>>
    /\ Frame("obligations")

NextObligations == Analyze \/ GetOneSidedTerms

SpecObligations == InitObligations /\ [][NextObligations]_vars

-----------------------------------------------------------------------------
(* Claims about the obligation analyzer                                    *)

\* C22: every kept sentence is classified by first match: it is among the
\* prohibitions exactly when a prohibition marker is in it, among the
\* obligations exactly when an obligation marker and no prohibition marker
\* is in it, among the rights exactly when a right marker and no marker of
\* the two other types is in it; the three lists are pairwise disjoint,
\* hold kept sentences only, and are together no longer than the list of
\* the sentences.
C22_FirstMatchPriority ==
    obligation_analysis # NoResult =>
        LET kept == split_sentences(contract_text)
            Has(type, s) ==
                \E t \in 1..Len(markers[type]) : \E k \in 1..Len(markers[type][t].markers) :
                    Contains(Lower(s), markers[type][t].markers[k])
            Texts(entries) == {entries[k].text : k \in 1..Len(entries)}
            prohibited == Texts(obligation_analysis.prohibitions)
            obliged == Texts(obligation_analysis.obligations)
            entitled == Texts(obligation_analysis.rights)
        IN /\ \A k \in 1..Len(kept) :
                 /\ kept[k] \in prohibited <=> Has("prohibition", kept[k])
                 /\ kept[k] \in obliged
                       <=> (Has("obligation", kept[k]) /\ ~Has("prohibition", kept[k]))
                 /\ kept[k] \in entitled
                       <=> (/\ Has("right", kept[k])
                            /\ ~Has("obligation", kept[k])
                            /\ ~Has("prohibition", kept[k]))
           /\ prohibited \cap obliged = {}
           /\ prohibited \cap entitled = {}
           /\ obliged \cap entitled = {}
           /\ prohibited \cup obliged \cup entitled \subseteq {kept[k] : k \in 1..Len(kept)}
           /\ Len(obligation_analysis.prohibitions) + Len(obligation_analysis.obligations)
                 + Len(obligation_analysis.rights) <= Len(kept)

\* C22 witness: a sentence with "shall not", which has the obligation
\* marker "shall" in it, was classified as a prohibition and as nothing
\* else.
C22_Witness ==
    /\ obligation_analysis # NoResult
    /\ contract_text = "The Vendor shall not assign this Agreement. "
    /\ Len(obligation_analysis.prohibitions) = 1
    /\ obligation_analysis.prohibitions[1].markers_found = <<"shall not">>
    /\ obligation_analysis.obligations = <<>>
    /\ obligation_analysis.rights = <<>>

\* C23: a sentence with a conditional obligation marker ("shall, upon",
\* "must, if", "will, provided that") and no prohibition marker is an
\* obligation of strength conditional.
C23_ConditionalMarkerGivesConditional ==
    obligation_analysis # NoResult =>
        \A k \in 1..Len(obligation_analysis.obligations) :
            (\E c \in 1..Len(markers.obligation[3].markers) :
                Contains(Lower(obligation_analysis.obligations[k].text),
                         markers.obligation[3].markers[c]))
                => obligation_analysis.obligations[k].strength = "conditional"

\* C24: with the tally of a side being the exclusive rights of that side
\* and the strong prohibitions on the other side, the assessment favors the
\* first party exactly when its tally exceeds the second party's by more
\* than 3, favors the second party exactly when its tally exceeds the
\* first party's by more than 3, and is balanced otherwise.
C24_VerdictByMarginOfThree ==
    (obligation_analysis # NoResult /\ one_sided_terms # NoResult) =>
        LET Tally(side, other) ==
                Cardinality({k \in 1..Len(obligation_analysis.rights) :
                                /\ obligation_analysis.rights[k].strength = "exclusive"
                                /\ obligation_analysis.rights[k].affected_party = side})
                + Cardinality({k \in 1..Len(obligation_analysis.prohibitions) :
                                /\ obligation_analysis.prohibitions[k].strength = "strong"
                                /\ obligation_analysis.prohibitions[k].affected_party = other})
            first == Tally("first_party", "second_party")
            second == Tally("second_party", "first_party")
        IN /\ one_sided_terms.assessment
                 = "Contract appears to favor the first party (Company/Employer/Lessor)"
                 <=> first > second + 3
           /\ one_sided_terms.assessment = "Contract appears to favor the second party"
                 <=> second > first + 3
           /\ one_sided_terms.assessment = "Contract appears relatively balanced"
                 <=> (first <= second + 3 /\ second <= first + 3)

-----------------------------------------------------------------------------
(* The Streamlit application: the session state, and analyze_contract as   *)
(* the sequence of its steps.  A click on "Analyze Contract" runs the      *)
(* steps one after the other; the keys of the results dict stand for the   *)
(* values stored under them.                                               *)

\* initialize_session_state(): the session state of a new session.
initialize_session_state ==
    [analysis_complete |-> FALSE, analysis_results |-> NoResult, uploaded_file_name |-> None]

\* The steps of analyze_contract in the order of the code; the last one is
\* results["success"] = True.
PipelineSteps ==
    << "load", "classify", "extract_clauses", "extract_all", "analyze", "detect",
       "score_contract", "detect_all", "check_compliance", "explain",
       "generate_summary", "generate_report", "create_audit_entry", "success" >>

\* The keys of results that a step sets.
StepKeys(step) ==
    CASE step = "load" -> {"text", "language_info"}
      [] step = "classify" -> {"contract_type"}
      [] step = "extract_clauses" -> {"clauses_raw"}
      [] step = "extract_all" -> {"entities"}
      [] step = "analyze" -> {"obligations"}
      [] step = "detect" -> {"ambiguities"}
      [] step = "score_contract" -> {"clauses", "risk_score"}
      [] step = "detect_all" -> {"clause_detections"}
      [] step = "check_compliance" -> {"compliance"}
      [] step = "explain" -> {}
      [] step = "generate_summary" -> {"summary"}
      [] step = "generate_report" -> {"report"}
      [] step = "create_audit_entry" -> {"audit_id"}
      [] step = "success" -> {}

\* The keys of results whose values a step reads, results[key] or the
\* local variable that holds the same value.
StepReads(step) ==
    CASE step = "score_contract" -> {"clauses_raw"}
      [] step = "check_compliance" -> {"text", "contract_type"}
      [] step = "explain" -> {"clauses"}
      [] step = "generate_summary" -> {"text", "contract_type", "entities", "risk_score"}
      [] step = "generate_report" ->
            {"contract_type", "risk_score", "clause_detections", "compliance",
             "entities", "obligations"}
      [] step = "create_audit_entry" -> {"risk_score", "contract_type", "clause_detections"}
      [] step \in {"classify", "extract_clauses", "extract_all", "analyze", "detect",
                   "detect_all"} -> {"text"}
      [] OTHER -> {}

\* What a step can come to: it returns, it raises, and the document loader
\* can return success=False; a step that reads a missing key raises; the
\* audit entry can be written, whole or in part, before the step raises.
StepOutcomes(step, keys) ==
    IF ~(StepReads(step) \subseteq keys) THEN {"raised"}
    ELSE {"returned", "raised"}
         \cup (IF step = "load" THEN {"failed"} ELSE {})
         \cup (IF step = "create_audit_entry" THEN {"raised_after_write"} ELSE {})

\* An analyze_contract that goes on with the next step after an exception.
next_stepSkipping(pos, outcome) ==
    IF outcome = "failed" THEN "return"
    ELSE IF \E k \in 1..(Len(PipelineSteps) - 1) : PipelineSteps[k] = pos
    THEN PipelineSteps[(CHOOSE k \in 1..Len(PipelineSteps) : PipelineSteps[k] = pos) + 1]
    ELSE "return"

\* The position after the step at position pos ended with the outcome: the
\* next step, or "return" after the last step, a failed load or an
\* exception.
next_step(pos, outcome) ==
    IF outcome # "returned" THEN "return"
    ELSE IF \E k \in 1..(Len(PipelineSteps) - 1) : PipelineSteps[k] = pos
    THEN PipelineSteps[(CHOOSE k \in 1..Len(PipelineSteps) : PipelineSteps[k] = pos) + 1]
    ELSE "return"

\* results after the step ended with the outcome.
step_results(res, step, outcome) ==
    IF outcome # "returned" THEN res
    ELSE IF step = "success" THEN [res EXCEPT !.success = TRUE]
    ELSE IF StepKeys(step) = {} THEN res
    ELSE [key \in StepKeys(step) |-> step] @@ res

\* render_upload_section after analyze_contract has returned: the results
\* are stored whatever their success.
store_resultsUnchecked(session, res) ==
    [analysis_complete |-> TRUE, analysis_results |-> res,
     uploaded_file_name |-> res.file_name]

\* render_upload_section after analyze_contract has returned.
store_results(session, res) ==
    IF res.success
    THEN [analysis_complete |-> TRUE, analysis_results |-> res,
          uploaded_file_name |-> res.file_name]
    ELSE session

\* main(): the results section is rendered, and not the upload section.
ResultsShown ==
    session_state.analysis_complete /\ session_state.analysis_results # NoResult

\* The names of the files that are uploaded.
FileNames == {"lease.pdf", "nda.txt"}

\* The most audit entries that the analyses of one session write.
MaxAuditEntries == 2

InitApp ==
    /\ session_state = initialize_session_state
    /\ uploaded_file = None
    /\ pc = "idle"
    /\ pipeline_results = NoResult
    /\ audit_log = <<>>
    /\ shown_error = None
    /\ contract_text = ""
    /\ Idle("app")

\* The user puts a file into the uploader, or takes it out.
Upload ==
    /\ pc = "idle"
    /\ ~ResultsShown
    /\ \E file \in FileNames \cup {None} :
          /\ file # uploaded_file
          /\ uploaded_file' = file
    /\ UNCHANGED <<session_state, pc, pipeline_results, audit_log, shown_error, contract_text>>
    /\ Frame("app")

\* A click on "Analyze Contract": analyze_contract starts.
ClickAnalyze ==
    /\ pc = "idle"
    /\ ~ResultsShown
    /\ uploaded_file # None
    /\ Len(audit_log) < MaxAuditEntries
    /\ pc' = PipelineSteps[1]
    /\ pipeline_results' = [file_name |-> uploaded_file, success |-> FALSE]
    /\ shown_error' = None
    /\ UNCHANGED <<session_state, uploaded_file, audit_log, contract_text>>
    /\ Frame("app")

\* One step of analyze_contract.
RunStep ==
    /\ pc \notin {"idle", "return"}
    /\ \E outcome \in StepOutcomes(pc, DOMAIN pipeline_results) :
          /\ pipeline_results' = step_results(pipeline_results, pc, outcome)
          /\ pc' = next_step(pc, outcome)
          /\ shown_error' = IF outcome = "returned" THEN shown_error ELSE pc
          /\ audit_log' =
                IF pc = "create_audit_entry" /\ outcome \in {"returned", "raised_after_write"}
                THEN Append(audit_log, [file_name |-> pipeline_results.file_name,
                                        results_keys |-> DOMAIN pipeline_results])
                ELSE audit_log
    /\ UNCHANGED <<session_state, uploaded_file, contract_text>>
    /\ Frame("app")

\* analyze_contract has returned: its results are stored if it succeeded,
\* and the script runs again; the uploader is not rendered along with the
\* results and loses its file.
Return ==
    /\ pc = "return"
    /\ session_state' = store_results(session_state, pipeline_results)
    /\ uploaded_file' = IF pipeline_results.success THEN None ELSE uploaded_file
    /\ pc' = "idle"
    /\ UNCHANGED <<pipeline_results, audit_log, shown_error, contract_text>>
    /\ Frame("app")

\* A click on "Analyze Another".
ClickAnalyzeAnother ==
    /\ pc = "idle"
    /\ ResultsShown
    /\ session_state' = [analysis_complete |-> FALSE, analysis_results |-> NoResult,
                         uploaded_file_name |-> None]
    /\ UNCHANGED <<uploaded_file, pc, pipeline_results, audit_log, shown_error, contract_text>>
    /\ Frame("app")

NextApp == Upload \/ ClickAnalyze \/ RunStep \/ Return \/ ClickAnalyzeAnother

SpecApp == InitApp /\ [][NextApp]_vars

-----------------------------------------------------------------------------
(* Claims about the application                                            *)

\* C29: in every state of the session analysis_complete=True implies that
\* analysis_results is a result with success=True and uploaded_file_name
\* is set; a failed analysis leaves the three session variables as they
\* were; "Analyze Another" resets the three together.
C29_SessionConsistent ==
    /\ [](session_state.analysis_complete
             => /\ session_state.analysis_results # NoResult
                /\ session_state.analysis_results.success
                /\ session_state.uploaded_file_name # None)
    /\ [][pc \notin {"idle", "return"} => UNCHANGED session_state]_vars
    /\ [][(pc = "return" /\ ~pipeline_results.success) => UNCHANGED session_state]_vars
    /\ [][(session_state.analysis_complete /\ ~session_state'.analysis_complete)
             => session_state' = initialize_session_state]_vars

\* C29 witness: after an analysis that wrote an audit entry and a return
\* to the upload section, the analysis of another file is complete and
\* stored under its name.
C29_Witness ==
    /\ session_state.analysis_complete
    /\ Len(audit_log) = 2
    /\ audit_log[1].file_name = "lease.pdf"
    /\ session_state.uploaded_file_name = "nda.txt"
    /\ session_state.analysis_results.file_name = "nda.txt"
    /\ session_state.analysis_results.success

\* C30: the steps of analyze_contract run in a fixed order: the risk score
\* is there only after the clauses, the compliance result only after the
\* contract type, the report only after all analyses, an audit entry only
\* after the report, success=True only after the audit entry; after a
\* failed load or an exception no later step runs, nothing more is
\* written and success stays False.
C30_StepsInOrderAndFailureStops ==
    /\ [](pipeline_results # NoResult =>
            LET keys == DOMAIN pipeline_results
            IN /\ "risk_score" \in keys => "clauses_raw" \in keys
               /\ "compliance" \in keys => "contract_type" \in keys
               /\ "report" \in keys
                     => {"contract_type", "clauses_raw", "entities", "obligations",
                         "ambiguities", "risk_score", "clause_detections", "compliance",
                         "summary"} \subseteq keys
               /\ "audit_id" \in keys => "report" \in keys
               /\ pipeline_results.success
                     => /\ "audit_id" \in keys
                        /\ audit_log # <<>>
                        /\ audit_log[Len(audit_log)].file_name = pipeline_results.file_name
               /\ shown_error # None
                     => ~pipeline_results.success /\ pc \in {"idle", "return"})
    /\ [](\A k \in 1..Len(audit_log) : "report" \in audit_log[k].results_keys)
    /\ [][(shown_error # None /\ shown_error' # None)
             => UNCHANGED <<pipeline_results, audit_log>>]_vars

\* C30 witness: report generation raised after all analyses had run: no
\* audit entry was written and the results came back without success.
C30_Witness ==
    /\ pc = "return"
    /\ shown_error = "generate_report"
    /\ {"compliance", "summary"} \subseteq DOMAIN pipeline_results
    /\ "report" \notin DOMAIN pipeline_results
    /\ ~pipeline_results.success
    /\ audit_log = <<>>

=============================================================================
